---- MODULE Spec2Model ----
(***************************************************************************)
(* CueCast soundboard: the renderer's audio engine (hooks/useAudio.ts) and *)
(* the App component that drives it.  Every async function of the source   *)
(* is split at its awaits: the call runs up to the first await in one      *)
(* step, and each continuation is a step of its own.                       *)
(***************************************************************************)
EXTENDS Integers, Sequences, FiniteSets, TLC

\* ---------------------------------------------------------------- bounds
MaxVoices  == 2      \* voices created in one run
MaxTimers  == 1      \* pending stopAll cleanup timers
MaxHooks   == 2      \* useAudio hook instances
MaxDevices == 1      \* output device ids
MaxButtons == 1      \* buttons of the grid in a run (DEFAULT_BUTTONS_COUNT is 8)

\* async engine calls in flight at once
MaxTasks   == MaxVoices
MaxFlows   == 2      \* renderer flows awaiting the main process at once
MaxMsgs    == 3      \* set-hotkeys-enabled messages on their way at once

\* ------------------------------------------------------ program constants
NoPath         == 0    \* ButtonConfig.path = null
NoDevice       == 0    \* deviceId null / '' (system default)
NoNode         == 0    \* a ref whose .current is null
DefaultGain    == 10   \* 1.0, in tenths
FadeInMs       == 10
StartOffsetMs  == 5
FadeOutMs      == 30
StopOffsetMs   == 35
CleanupDelayMs == 50

NoBuf   == [from |-> NoPath, n |-> 0]   \* cache.get(path) === undefined

Paths   == {1, 2}                \* two audio files
Keys    == Paths \cup {NoPath}   \* anything a caller can pass as a path
Devices == 1..MaxDevices
Hooks   == 1..MaxHooks
Buttons == 1..MaxButtons

\* ButtonConfig values handed to trigger (label plays no part in the engine):
\* an empty button, and one button per file; gain is in tenths, and the
\* button of file 1 has the falsy gain 0
ButtonConfigs == {[path |-> NoPath, gain |-> DefaultGain]}
                   \cup {[path |-> p, gain |-> 5 * (p - 1)] : p \in Paths}

VARIABLES
  globMade,   \* window.__cuecastAudio exists
  glob,       \* window.__cuecastAudio.{ctx, mainGain, dest, el}
  refs,       \* per hook instance: mounted flag and the four useRef cells
  made,       \* how many contexts / gains / dests / elements were constructed
  ctxState,   \* AudioContext.state per constructed context
  canSetSink, \* the platform's audio element has setSinkId
  sink,       \* sinkId per constructed playback element
  cache,      \* window.__cuecastAudio.cache : path -> AudioBuffer
  voices,     \* every {src, gain} pair ever created, in creation order
  active,     \* window.__cuecastAudio.active (indices into voices)
  tasks,      \* async engine calls suspended at an await, in call order
  timers,     \* pending setTimeout callbacks of stopAll, in call order
  decoded,    \* AudioBuffers decodeAudioData has produced, per path
  overlap,    \* paths called while another call of the path was in flight
  last,       \* the last call of init/trigger/preload/setOutput/stopAll
  failed,     \* kinds of engine call one of whose awaits has failed
  config,     \* App: the config state of the committed render
  mainConfig, \* main process: let config
  flows,      \* App handlers suspended at an await, in call order
  status,     \* App: the status line
  reassigned, \* buttons whose path was changed from one file to another
  chosenOutput, \* the output the user chose last in the select #output-device
              \* (before any choice: the one the App was loaded with)
  disk,       \* main process: the file config.json in userData
  focused,    \* the window has the focus
  hotkeysSuppressed, \* main process: let hotkeysSuppressed
  registered, \* accelerators registered with globalShortcut
  results,    \* what the last registerHotkeys call returned
  hotkeyIndex, \* App: the button the hotkey dialog is open for (0: null)
  editIndex,  \* App: the button the edit dialog is open for (0: null)
  enabledMsgs, \* set-hotkeys-enabled messages on their way to the main process
  mainWindow, \* main process: let mainWindow: "none", the window app.whenReady
              \* created ("first"), or one the activate handler created
  attempted   \* the hotkeys (accelerator -> buttonIndex) registerHotkeys last
              \* called globalShortcut.register for, since the last unregisterAll

engineVars == <<globMade, glob, refs, made, ctxState, canSetSink, sink, cache,
                voices, active, tasks, timers, decoded, overlap, last,
                failed>>
mainVars   == <<disk, focused, hotkeysSuppressed, registered, results, mainWindow,
                attempted>>
dialogVars == <<hotkeyIndex, editIndex, enabledMsgs>>
appVars    == <<config, mainConfig, flows, status, reassigned, chosenOutput,
                mainVars, dialogVars>>
vars       == <<globMade, glob, refs, made, ctxState, canSetSink, sink, cache,
                voices, active, tasks, timers, decoded, overlap, last,
                failed,
                config, mainConfig, flows, status, reassigned, chosenOutput,
                disk, focused, hotkeysSuppressed, registered, results, mainWindow,
                attempted,
                hotkeyIndex, editIndex, enabledMsgs>>

\* --------------------------------------------------------------- helpers
RemoveAt(s, k) == SubSeq(s, 1, k - 1) \o SubSeq(s, k + 1, Len(s))

NullRefs == [ctx |-> NoNode, mainGain |-> NoNode, dest |-> NoNode, el |-> NoNode]

\* early: the call returned at its first guard
Call(name, early) == [op |-> name, early |-> early]

Task(op, h, node, b, pc, dev) ==
  [op |-> op, hook |-> h, node |-> node, path |-> b.path, gain |-> b.gain,
   pc |-> pc, dev |-> dev]

NoButton == [path |-> NoPath, gain |-> 0]

InFlight(p) == \E k \in 1..Len(tasks) :
                  tasks[k].path = p /\ tasks[k].op \in {"trigger", "preload"}

TriggersInFlight == Cardinality({k \in 1..Len(tasks) : tasks[k].op = "trigger"})

\* const target = button.gain || 1.0
TargetGain(g) == IF g = 0 THEN DefaultGain ELSE g

\* a voice that is built already faded out and stopped
NewVoiceStopped(ctx, buf, path, g) ==
  [ctx |-> ctx, buf |-> buf, path |-> path, target |-> TargetGain(g),
   fadeIn |-> FadeInMs, startAt |-> StartOffsetMs,
   fadeOut |-> FadeOutMs, stopAt |-> StopOffsetMs,
   state |-> "Stopping", connected |-> TRUE]

\* the {src, gain} pair built by trigger, lines 88-106
NewVoice(ctx, buf, path, g) ==
  [ctx |-> ctx, buf |-> buf, path |-> path, target |-> TargetGain(g),
   fadeIn |-> FadeInMs, startAt |-> StartOffsetMs,
   fadeOut |-> 0, stopAt |-> 0,
   state |-> "Scheduled", connected |-> TRUE]

\* The context has resumed and continuations of "await ctx.resume()" (line
\* 81) are still to run.  All pending resume promises of a context resolve in
\* one task and their continuations run as microtasks, one after the other,
\* before the renderer runs any other task.
Draining ==
  \E k \in 1..Len(tasks) :
     tasks[k].pc = "resume" /\ ctxState[tasks[k].node] = "running"

\* ------------------------------------------------------------ useAudio()
\* A render of a component that calls useAudio.  The first render in the
\* process creates window.__cuecastAudio; the first render of an instance
\* initialises its refs from the global (useRef keeps the initial value of
\* the first render only).
useAudio(h) ==
  /\ ~Draining
  /\ globMade' = TRUE
  /\ glob' = IF globMade THEN glob ELSE NullRefs
  /\ refs' = IF refs[h].mounted THEN refs
             ELSE [refs EXCEPT ![h] =
                     [mounted |-> TRUE,
                      cell |-> IF globMade THEN glob ELSE NullRefs]]
  /\ last' = Call("useAudio", FALSE)
  /\ UNCHANGED <<made, ctxState, canSetSink, sink, cache, voices, active,
                 tasks, timers, decoded, overlap, failed>>
  /\ UNCHANGED appVars

\* ------------------------------------------------------------------ init
\* if (!audioContextRef.current): what the guard of init looks at
InitNeedsGraph(h) == refs[h].cell.ctx = NoNode

\* const el = audioElRef.current; if (outputDeviceId && el?.setSinkId)
InitBinds(el, d) == d # NoDevice /\ el # NoNode /\ canSetSink

initCore(h, d) ==
  /\ ~Draining
  /\ refs[h].mounted
  /\ LET build == InitNeedsGraph(h)
         cell  == IF build
                  THEN [ctx |-> made.ctx + 1, mainGain |-> made.mainGain + 1,
                        dest |-> made.dest + 1, el |-> made.el + 1]
                  ELSE refs[h].cell
     IN /\ IF build
           THEN /\ made' = [ctx |-> made.ctx + 1, mainGain |-> made.mainGain + 1,
                            dest |-> made.dest + 1, el |-> made.el + 1]
                /\ \E st \in {"suspended", "running"} :
                      ctxState' = Append(ctxState, st)
                /\ sink' = Append(sink, NoDevice)
                /\ refs' = [refs EXCEPT ![h].cell = cell]
                /\ glob' = cell
           ELSE UNCHANGED <<made, ctxState, sink, refs, glob>>
        /\ IF InitBinds(cell.el, d)
           THEN /\ Len(tasks) < MaxTasks
                /\ tasks' = Append(tasks, Task("bind", h, cell.el, NoButton, "bind", d))
           ELSE UNCHANGED tasks
  /\ last' = Call("init", ~InitNeedsGraph(h))
  /\ UNCHANGED <<failed, globMade, canSetSink, cache, voices, active, timers,
                 decoded, overlap>>

init(h, d) == initCore(h, d) /\ UNCHANGED appVars

\* ------------------------------------------------------------- setOutput
\* if (el && el.setSinkId)
SetOutputBinds(el) == el # NoNode /\ canSetSink

setOutputCore(h, d) ==
  /\ ~Draining
  /\ refs[h].mounted
  /\ IF SetOutputBinds(refs[h].cell.el)
     THEN /\ Len(tasks) < MaxTasks
          /\ tasks' = Append(tasks, Task("bind", h, refs[h].cell.el,
                                         NoButton, "bind", d))
     ELSE UNCHANGED tasks
  /\ last' = Call("setOutput", ~SetOutputBinds(refs[h].cell.el))
  /\ UNCHANGED <<failed, globMade, glob, refs, made, ctxState, canSetSink, sink, cache,
                 voices, active, timers, decoded, overlap>>

setOutput(h, d) == setOutputCore(h, d) /\ UNCHANGED appVars

\* setSinkId awaited outside any try block: C16 does not hold of it
BindUncaught(op) == op \in {"trigger", "bind"}

\* a call none of whose awaits is inside a try block: C12 does not hold of it
CatchesNothing(op) == TRUE

\* Whether a failed await rejects the promise of the call to its caller.
\* trigger awaits readFileBytes and decodeAudioData outside any try (lines
\* 84-85); preload awaits them inside try/catch (112-118); init and setOutput
\* await setSinkId inside try { } catch {} (66, 73).
Uncaught(op) == op = "trigger"

\* the kinds of call that have rejected to their caller
Rejected == {op \in failed : Uncaught(op)}

\* the calls with a failed await, after an await of a call of op has settled
Settled(op, ok) == IF ok THEN failed ELSE failed \cup {op}

\* a device switch that drops the voices in flight: C9 does not hold of it
setSinkIdDrops(k, ok) ==
  /\ ~Draining
  /\ k \in 1..Len(tasks)
  /\ tasks[k].pc = "bind"
  /\ sink' = IF ok THEN [sink EXCEPT ![tasks[k].node] = tasks[k].dev] ELSE sink
  /\ tasks' = RemoveAt(tasks, k)
  /\ active' = {}
  /\ failed' = Settled(tasks[k].op, ok)
  /\ UNCHANGED <<globMade, glob, refs, made, ctxState, canSetSink, cache,
                 voices, timers, decoded, overlap, last>>
  /\ UNCHANGED appVars

\* await el.setSinkId(...) settles; a rejection is swallowed by the catch and
\* leaves the element's sinkId as it was
setSinkIdDone(k, ok) ==
  /\ ~Draining
  /\ k \in 1..Len(tasks)
  /\ tasks[k].pc = "bind"
  /\ sink' = IF ok THEN [sink EXCEPT ![tasks[k].node] = tasks[k].dev] ELSE sink
  /\ tasks' = RemoveAt(tasks, k)
  /\ failed' = Settled(tasks[k].op, ok)
  /\ UNCHANGED <<globMade, glob, refs, made, ctxState, canSetSink, cache,
                 voices, active, timers, decoded, overlap, last>>
  /\ UNCHANGED appVars

\* --------------------------------------------------------------- trigger
\* the guard of line 80 without its third test: C3 does not hold of it
GuardWithoutPath(h, b) ==
  \/ refs[h].cell.ctx = NoNode
  \/ refs[h].cell.mainGain = NoNode

\* if (!ctx || !mainGain || !button.path) return;
TriggerReturnsEarly(h, b) ==
  \/ refs[h].cell.ctx = NoNode
  \/ refs[h].cell.mainGain = NoNode
  \/ b.path = NoPath

\* a lookup that never finds an entry: C1 does not hold of it
CacheNeverHits(p) == FALSE

\* a lookup that ignores its key and returns whatever buffer the cache holds:
\* C10 does not hold of it
CacheGetAnyKey(p) ==
  IF \E q \in Paths : cache[q] # NoBuf
  THEN cache[CHOOSE q \in Paths : cache[q] # NoBuf]
  ELSE NoBuf

\* cacheRef.current.get(button.path)
CacheGet(p) == cache[p]

\* let buf = cacheRef.current.get(button.path); if (!buf) ...
CacheHit(p) == CacheGet(p) # NoBuf

\* lines 88-106: build the voice, add it to the active set, start the source
CreateVoice(ctx, buf, path, g) ==
  /\ voices' = Append(voices, NewVoice(ctx, buf, path, g))
  /\ active' = active \cup {Len(voices) + 1}

\* room left for one more trigger in a bounded run
TriggerRoom == Len(voices) + TriggersInFlight < MaxVoices

triggerCore(h, b) ==
  /\ ~Draining
  /\ refs[h].mounted
  /\ last' = Call("trigger", TriggerReturnsEarly(h, b))
  /\ IF TriggerReturnsEarly(h, b)
     THEN UNCHANGED <<tasks, voices, active, overlap>>
     ELSE
       /\ TriggerRoom
       /\ overlap' = IF InFlight(b.path) THEN overlap \cup {b.path} ELSE overlap
       /\ IF ctxState[refs[h].cell.ctx] = "suspended"
          THEN \* await ctx.resume()
               /\ Len(tasks) < MaxTasks
               /\ tasks' = Append(tasks, Task("trigger", h, refs[h].cell.ctx, b,
                                              "resume", NoDevice))
               /\ UNCHANGED <<voices, active>>
          ELSE IF CacheHit(b.path)
          THEN /\ CreateVoice(refs[h].cell.ctx, CacheGet(b.path), b.path, b.gain)
               /\ UNCHANGED tasks
          ELSE \* await window.electronAPI.readFileBytes(button.path)
               /\ Len(tasks) < MaxTasks
               /\ tasks' = Append(tasks, Task("trigger", h, refs[h].cell.ctx, b,
                                              "read", NoDevice))
               /\ UNCHANGED <<voices, active>>
  /\ UNCHANGED <<failed, globMade, glob, refs, made, ctxState, canSetSink, sink, cache,
                 timers, decoded>>

trigger(h, b) == triggerCore(h, b) /\ UNCHANGED appVars

\* continuations that run in any order: C23 does not hold of them
ResumedInAnyOrder(k) == TRUE

\* Pending resume promises of one context resolve in the order of the calls,
\* and the continuations of line 81 run in that order.
ResumedInOrder(k) ==
  \A j \in 1..(k - 1) :
     ~(tasks[j].pc = "resume" /\ tasks[j].node = tasks[k].node)

\* ctx.resume() resolves: the context runs and the trigger goes on at line 82.
triggerResumed(k) ==
  /\ k \in 1..Len(tasks)
  /\ tasks[k].op = "trigger" /\ tasks[k].pc = "resume"
  /\ ResumedInOrder(k)
  /\ ctxState' = [ctxState EXCEPT ![tasks[k].node] = "running"]
  /\ IF CacheHit(tasks[k].path)
     THEN /\ CreateVoice(tasks[k].node, CacheGet(tasks[k].path), tasks[k].path,
                         tasks[k].gain)
          /\ tasks' = RemoveAt(tasks, k)
     ELSE /\ tasks' = [tasks EXCEPT ![k].pc = "read"]
          /\ UNCHANGED <<voices, active>>
  /\ UNCHANGED <<failed, globMade, glob, refs, made, canSetSink, sink, cache, timers,
                 decoded, overlap, last>>
  /\ UNCHANGED appVars

\* readFileBytes settles.  ok: the bytes go to ctx.decodeAudioData (line 85 /
\* 114).  Not ok: trigger rejects to its caller, preload swallows the error.
readDone(k, ok) ==
  /\ ~Draining
  /\ k \in 1..Len(tasks)
  /\ tasks[k].pc = "read"
  /\ tasks' = IF ok THEN [tasks EXCEPT ![k].pc = "decode"] ELSE RemoveAt(tasks, k)
  /\ failed' = Settled(tasks[k].op, ok)
  /\ UNCHANGED <<globMade, glob, refs, made, ctxState, canSetSink, sink, cache,
                 voices, active, timers, decoded, overlap, last>>
  /\ UNCHANGED appVars

\* a decode whose failure goes unnoticed, the call going on with whatever it
\* got: C13 does not hold of it
decodeDoneUnchecked(k, ok) ==
  /\ ~Draining
  /\ k \in 1..Len(tasks)
  /\ tasks[k].pc = "decode"
  /\ tasks' = RemoveAt(tasks, k)
  /\ LET buf == IF ok THEN [from |-> tasks[k].path, n |-> decoded[tasks[k].path] + 1]
                ELSE NoBuf
     IN /\ decoded' = IF ok THEN [decoded EXCEPT ![tasks[k].path] = @ + 1] ELSE decoded
        /\ cache' = [cache EXCEPT ![tasks[k].path] = buf]
        /\ IF tasks[k].op = "trigger"
           THEN CreateVoice(tasks[k].node, buf, tasks[k].path, tasks[k].gain)
           ELSE UNCHANGED <<voices, active>>
  /\ failed' = Settled(tasks[k].op, ok)
  /\ UNCHANGED <<globMade, glob, refs, made, ctxState, canSetSink, sink,
                 timers, overlap, last>>
  /\ UNCHANGED appVars

\* decodeAudioData settles.  ok: cache.set(path, buf), and trigger goes on to
\* build its voice from the buffer it decoded itself.
decodeDone(k, ok) ==
  /\ ~Draining
  /\ k \in 1..Len(tasks)
  /\ tasks[k].pc = "decode"
  /\ tasks' = RemoveAt(tasks, k)
  /\ IF ok
     THEN LET buf == [from |-> tasks[k].path, n |-> decoded[tasks[k].path] + 1]
          IN /\ decoded' = [decoded EXCEPT ![tasks[k].path] = @ + 1]
             /\ cache' = [cache EXCEPT ![tasks[k].path] = buf]
             /\ IF tasks[k].op = "trigger"
                THEN CreateVoice(tasks[k].node, buf, tasks[k].path, tasks[k].gain)
                ELSE UNCHANGED <<voices, active>>
     ELSE UNCHANGED <<decoded, cache, voices, active>>
  /\ failed' = Settled(tasks[k].op, ok)
  /\ UNCHANGED <<globMade, glob, refs, made, ctxState, canSetSink, sink,
                 timers, overlap, last>>
  /\ UNCHANGED appVars

\* --------------------------------------------------------------- preload
\* if (!ctx || !path || cacheRef.current.has(path)) return;
\* a guard that does not test ctx: C20 does not hold of it
PreloadGuardWithoutCtx(h, p) ==
  \/ p = NoPath
  \/ CacheHit(p)

PreloadReturnsEarly(h, p) ==
  \/ refs[h].cell.ctx = NoNode
  \/ p = NoPath
  \/ CacheHit(p)

preloadCore(h, p) ==
  /\ ~Draining
  /\ refs[h].mounted
  /\ last' = Call("preload", PreloadReturnsEarly(h, p))
  /\ IF PreloadReturnsEarly(h, p)
     THEN UNCHANGED <<tasks, overlap>>
     ELSE /\ Len(tasks) < MaxTasks
          /\ overlap' = IF InFlight(p) THEN overlap \cup {p} ELSE overlap
          /\ tasks' = Append(tasks, Task("preload", h, refs[h].cell.ctx,
                                         [path |-> p, gain |-> 0], "read", NoDevice))
  /\ UNCHANGED <<failed, globMade, glob, refs, made, ctxState, canSetSink, sink, cache,
                 voices, active, timers, decoded>>

preload(h, p) == preloadCore(h, p) /\ UNCHANGED appVars

\* --------------------------------------------------------------- stopAll
\* a fade-out that never stops the source: C5 does not hold of it
FadeWithoutStop(v) == [v EXCEPT !.fadeOut = FadeOutMs]

\* the body of activeRef.current.forEach: fade out, then src.stop(now + 0.035)
FadeAndStop(v) ==
  [v EXCEPT !.state = "Stopping", !.fadeOut = FadeOutMs, !.stopAt = StopOffsetMs]

\* what the timer callback leaves of the active set: activeRef.current.clear()
AfterClear(set) == {}

stopAll(h) ==
  /\ ~Draining
  /\ refs[h].mounted
  /\ last' = Call("stopAll", refs[h].cell.ctx = NoNode)
  /\ IF refs[h].cell.ctx = NoNode
     THEN UNCHANGED <<voices, timers>>
     ELSE /\ Len(timers) < MaxTimers
          /\ voices' = [v \in 1..Len(voices) |->
                          IF v \in active THEN FadeAndStop(voices[v])
                          ELSE voices[v]]
          /\ timers' = Append(timers, [delay |-> CleanupDelayMs, snap |-> active])
  /\ UNCHANGED <<failed, globMade, glob, refs, made, ctxState, canSetSink, sink, cache,
                 active, tasks, decoded, overlap>>
  /\ UNCHANGED appVars

\* the setTimeout callback of the oldest pending stopAll runs
clearTimer ==
  /\ ~Draining
  /\ Len(timers) > 0
  /\ active' = AfterClear(active)
  /\ timers' = Tail(timers)
  /\ UNCHANGED <<failed, globMade, glob, refs, made, ctxState, canSetSink, sink, cache,
                 voices, tasks, decoded, overlap, last>>
  /\ UNCHANGED appVars

\* ----------------------------------------------------- the audio backend
\* the scheduled start time of a source is reached
sourceStarted(v) ==
  /\ v \in 1..Len(voices)
  /\ voices[v].state = "Scheduled"
  /\ ctxState[voices[v].ctx] = "running"
  /\ voices' = [voices EXCEPT ![v].state = "Playing"]
  /\ UNCHANGED <<failed, globMade, glob, refs, made, ctxState, canSetSink, sink, cache,
                 active, tasks, timers, decoded, overlap, last>>
  /\ UNCHANGED appVars

\* the backend suspends a running context on its own; the engine has no
\* statechange listener and tests ctx.state only at line 81
contextSuspended(c) ==
  /\ ~Draining
  /\ c \in 1..made.ctx
  /\ ctxState[c] = "running"
  /\ ctxState' = [ctxState EXCEPT ![c] = "suspended"]
  /\ UNCHANGED <<failed, globMade, glob, refs, made, canSetSink, sink, cache, voices,
                 active, tasks, timers, decoded, overlap, last>>
  /\ UNCHANGED appVars

\* a listener that forgets active.delete(voice): C4 does not hold of it
KeepsVoice(v) == active

\* a listener that empties the active set: C22 does not hold of it
EndedDropsAll(v) == {}

\* members of the active set left by the 'ended' listener of voice v
WithoutVoice(v) == active \ {v}

\* the 'ended' event of a source (end of buffer, or its stop time) runs the
\* listener of lines 99-104
onEnded(v) ==
  /\ ~Draining
  /\ v \in 1..Len(voices)
  /\ voices[v].state \in {"Playing", "Stopping"}
  /\ voices' = [voices EXCEPT ![v].state = "Completed", ![v].connected = FALSE]
  /\ active' = WithoutVoice(v)
  /\ UNCHANGED <<failed, globMade, glob, refs, made, ctxState, canSetSink, sink, cache,
                 tasks, timers, decoded, overlap, last>>
  /\ UNCHANGED appVars

\* ------------------------------------------------------------------- App
\* the accelerators a hotkey can be set to
Accelerators == {1, 2}

\* config.hotkeys ({ [accelerator]: index }): the button index per accelerator,
\* 0 for an accelerator that is no key of the object
NoHotkeys == [a \in Accelerators |-> 0]

\* useState<AppConfig | null>(null)
NullConfig == [ok |-> FALSE, buttons |-> <<>>, hotkeys |-> NoHotkeys, out |-> NoDevice]

\* button labels: 0 is 'Empty', p > 0 is the name taken from the file path p
\* or a title typed in the edit dialog
EmptyLabel == 0

\* createDefaultButtons: { label: 'Empty', path: null, gain: 1.0 }
DefaultButton == [label |-> EmptyLabel, path |-> NoPath, gain |-> DefaultGain]

\* the main process's initial config
DefaultConfig ==
  [ok |-> TRUE, buttons |-> [i \in Buttons |-> DefaultButton],
   hotkeys |-> NoHotkeys, out |-> NoDevice]

Flow(op, pc, idx, snap, path, msg) ==
  [op |-> op, pc |-> pc, idx |-> idx, snap |-> snap, path |-> path, msg |-> msg,
   dev |-> NoDevice]

\* the renderer as it starts in a new window
BootFlow == Flow("boot", "getConfig", 0, NullConfig, NoPath, NullConfig)

\* { ...new, ...old }: the spread with its operands exchanged
SpreadUnder(old, new) ==
  [f \in DOMAIN old \cup DOMAIN new |-> IF f \in DOMAIN old THEN old[f] ELSE new[f]]

\* { ...old, ...new }: every top-level field of new, and the fields of old
\* that new does not have
Spread(old, new) ==
  [f \in DOMAIN old \cup DOMAIN new |-> IF f \in DOMAIN new THEN new[f] ELSE old[f]]

\* config = { ...config, ...newConfig } in the update-config handler
MergeConfig(old, new) ==
  LET merged == Spread(old, new)
  IN [ok |-> TRUE, buttons |-> merged.buttons, hotkeys |-> merged.hotkeys,
      out |-> merged.out]

\* ---- main process: config.json
\* no file config.json exists
NoFile == [kind |-> "missing"]

\* JSON.stringify(config, null, 2) as fs.writeFile stores it and JSON.parse
\* reads it back: an object with the three fields of AppConfig
File(c) ==
  [kind |-> "json", arr |-> TRUE,
   val |-> [buttons |-> c.buttons, hotkeys |-> c.hotkeys, out |-> c.out]]

\* loadConfig without the test of loadedConfig.buttons: any object is merged
LoadedUnchecked(old, file) ==
  IF file.kind = "json" THEN MergeConfig(old, file.val) ELSE old

\* loadConfig: the config after the try block.  A file that is missing
\* (readFile throws), is no JSON (JSON.parse throws) or holds null (the
\* property access throws) ends in the catch; an object is merged when its
\* buttons field is an array, and ignored otherwise.
Loaded(old, file) ==
  IF file.kind = "json" /\ "buttons" \in DOMAIN file.val /\ file.arr
  THEN MergeConfig(old, file.val)
  ELSE old

\* ---- main process: registerHotkeys
\* the accelerators that are keys of c.hotkeys
Configured(c) == {a \in Accelerators : c.hotkeys[a] # 0}

\* what globalShortcut.register(accelerator, ...) does for an accelerator:
\* returns true, returns false, or throws
Outcomes == {"true", "false", "throws"}

AllRegister == [a \in Accelerators |-> "true"]

\* a catch block that records nothing
CaughtSilently(a) == <<>>

\* catch (error) { results.push({ accelerator, ok: false }); ... }
Caught(a) == <<[accelerator |-> a, ok |-> FALSE]>>

\* the results pushed by the forEach over Object.entries(config.hotkeys), for
\* the keys from a on
RECURSIVE Pushed(_, _, _)
Pushed(c, oc, a) ==
  IF \A b \in Configured(c) : b < a THEN <<>>
  ELSE (IF a \notin Configured(c) THEN <<>>
        ELSE IF oc[a] = "throws" THEN Caught(a)
        ELSE <<[accelerator |-> a, ok |-> (oc[a] = "true")]>>)
       \o Pushed(c, oc, a + 1)

\* BrowserWindow.getFocusedWindow(), as a condition: the window has the focus
getFocusedWindow == focused

\* registerHotkeys() without its test of hotkeysSuppressed
RegisterAlways(c, oc) ==
  /\ registered' = {a \in Configured(c) : oc[a] = "true"}
  /\ results' = Pushed(c, oc, 1)
  /\ attempted' = c.hotkeys

\* registerHotkeys() while config is c, where oc says what register does per
\* accelerator
registerHotkeys(c, oc) ==
  IF hotkeysSuppressed
  THEN /\ registered' = {}
       /\ results' = <<>>
       /\ attempted' = NoHotkeys
  ELSE /\ registered' = {a \in Configured(c) : oc[a] = "true"}
       /\ results' = Pushed(c, oc, 1)
       /\ attempted' = c.hotkeys

\* the config the event handlers of the committed render close over
HandlerConfig == config

\* buttons[i] = { ...buttons[i], label: name, path: filePath } over the
\* config captured by the handler, then {...config, buttons}
WithPath(snap, i, p) ==
  [snap EXCEPT !.buttons[i].label = p, !.buttons[i].path = p]

\* main: app.whenReady().then(...): loadConfig, createWindow, and the hotkeys
\* are registered if the new window has the focus.  The renderer starts with
\* the mount effect's getConfig and the suppression effect's
\* setHotkeysEnabled(true).
whenReady(f, oc) ==
  /\ f \in 1..Len(flows)
  /\ flows[f].op = "launch"
  /\ mainConfig' = Loaded(mainConfig, disk)
  /\ IF focused
     THEN registerHotkeys(Loaded(mainConfig, disk), oc)
     ELSE UNCHANGED <<registered, results, attempted>>
  /\ flows' = [flows EXCEPT ![f] = BootFlow]
  /\ enabledMsgs' = Append(enabledMsgs, TRUE)
  /\ mainWindow' = "first"
  /\ UNCHANGED <<config, status, reassigned, chosenOutput, disk, focused,
                 hotkeysSuppressed, hotkeyIndex, editIndex>>
  /\ UNCHANGED engineVars

\* the mount effect, up to await audio.init: getConfig returns, setConfig(cfg),
\* audio.init(cfg.outputDeviceId)
configLoaded(f) ==
  /\ ~Draining
  /\ f \in 1..Len(flows)
  /\ flows[f].op = "boot" /\ flows[f].pc = "getConfig"
  /\ config' = mainConfig
  /\ initCore(1, mainConfig.out)
  /\ flows' = [flows EXCEPT ![f].pc = "init", ![f].msg = mainConfig]
  /\ chosenOutput' = mainConfig.out
  /\ UNCHANGED <<mainConfig, status, reassigned, mainVars, dialogVars>>

\* cfg.buttons.forEach(b => { if (b.path) audio.preload(b.path); }): the tasks
\* after the preload calls for buttons i.. of bs
RECURSIVE PreloadEach(_, _, _)
PreloadEach(bs, i, ts) ==
  IF i > Len(bs) THEN ts
  ELSE PreloadEach(bs, i + 1,
         IF bs[i].path # NoPath /\ ~PreloadReturnsEarly(1, bs[i].path)
         THEN Append(ts, Task("preload", 1, refs[1].cell.ctx,
                              [path |-> bs[i].path, gain |-> 0], "read", NoDevice))
         ELSE ts)

\* the path of the last assigned button of bs
LastPath(bs) ==
  bs[CHOOSE i \in 1..Len(bs) :
       /\ bs[i].path # NoPath
       /\ \A j \in (i + 1)..Len(bs) : bs[j].path = NoPath].path

\* the mount effect after await audio.init: the best-effort preloads
bootPreload(f) ==
  /\ ~Draining
  /\ f \in 1..Len(flows)
  /\ flows[f].op = "boot" /\ flows[f].pc = "init"
  /\ \A k \in 1..Len(tasks) : tasks[k].op # "bind"
  /\ LET bs    == flows[f].msg.buttons
         ts    == PreloadEach(bs, 1, tasks)
         paths == {bs[i].path : i \in 1..Len(bs)} \ {NoPath}
         new   == {ts[k].path : k \in (Len(tasks) + 1)..Len(ts)}
     IN /\ Len(ts) <= MaxTasks
        /\ tasks' = ts
        /\ overlap' = overlap \cup
              {p \in new : \/ InFlight(p)
                           \/ Cardinality({k \in (Len(tasks) + 1)..Len(ts) :
                                              ts[k].path = p}) > 1}
        /\ last' = IF paths = {} THEN last
                   ELSE Call("preload", PreloadReturnsEarly(1, LastPath(bs)))
  /\ flows' = RemoveAt(flows, f)
  /\ UNCHANGED <<failed, globMade, glob, refs, made, ctxState, canSetSink, sink, cache,
                 voices, active, timers, decoded>>
  /\ UNCHANGED <<config, mainConfig, status, reassigned, chosenOutput, mainVars, dialogVars>>

\* The handlers of the grid exist once the render with the loaded config is
\* committed.  React renders in a task of its own, so when init awaits nothing
\* (no setSinkId call) the mount effect has gone through its preloads first.
Rendered ==
  /\ config.ok
  /\ \A f \in 1..Len(flows) :
        flows[f].op = "boot" => \E k \in 1..Len(tasks) : tasks[k].op = "bind"

\* one assignment at a time: the file picker is modal to the window, and the
\* next assignment starts after the previous one has set its status
AssignIdle == \A f \in 1..Len(flows) : flows[f].op # "assign"

\* assignAudio(i) up to await selectAudioFile() (context menu, or a click on
\* an empty button)
assignAudio(i) ==
  /\ ~Draining
  /\ Rendered
  /\ AssignIdle
  /\ flows' = Append(flows, Flow("assign", "picker", i, HandlerConfig, NoPath, NullConfig))
  /\ UNCHANGED <<config, mainConfig, status, reassigned, chosenOutput, mainVars, dialogVars>>
  /\ UNCHANGED engineVars

\* the file picker closes: if (!filePath || !config) 'Assignment canceled';
\* otherwise updateConfig({ buttons }) sends update-config
pickerDone(f, choice) ==
  /\ ~Draining
  /\ f \in 1..Len(flows)
  /\ flows[f].pc = "picker"
  /\ IF choice = NoPath \/ ~flows[f].snap.ok
     THEN /\ status' = "Assignment canceled"
          /\ flows' = RemoveAt(flows, f)
     ELSE /\ flows' = [flows EXCEPT ![f].pc = "ipc", ![f].path = choice,
                         ![f].msg = WithPath(flows[f].snap, flows[f].idx, choice)]
          /\ UNCHANGED status
  /\ UNCHANGED <<config, mainConfig, reassigned, chosenOutput, mainVars, dialogVars>>
  /\ UNCHANGED engineVars

\* assignAudioPath(i, filePath) up to await updateConfig (drag and drop); from
\* there on its code is that of assignAudio
assignAudioPath(i, p) ==
  /\ ~Draining
  /\ Rendered
  /\ AssignIdle
  /\ flows' = Append(flows, Flow("assign", "ipc", i, HandlerConfig, p,
                                 WithPath(HandlerConfig, i, p)))
  /\ UNCHANGED <<config, mainConfig, status, reassigned, chosenOutput, mainVars, dialogVars>>
  /\ UNCHANGED engineVars

\* main: the update-config handler up to the await in saveConfig: the merge,
\* and fs.writeFile is called with the merged config stringified
mainUpdate(f) ==
  /\ f \in 1..Len(flows)
  /\ flows[f].pc = "ipc"
  /\ mainConfig' = MergeConfig(mainConfig, flows[f].msg)
  /\ flows' = [flows EXCEPT ![f].pc = "saving",
                            ![f].msg = MergeConfig(mainConfig, flows[f].msg)]
  /\ UNCHANGED <<config, status, reassigned, chosenOutput, mainVars, dialogVars>>
  /\ UNCHANGED engineVars

\* main: fs.writeFile settles (ok: the file holds what was handed to it; not
\* ok: saveConfig logs the error and the file is as it was), the hotkeys are
\* registered again if the window has the focus, and the handler returns
\* config as it is by now
mainReturn(f, ok, oc) ==
  /\ f \in 1..Len(flows)
  /\ flows[f].pc = "saving"
  /\ disk' = IF ok THEN File(flows[f].msg) ELSE disk
  /\ IF getFocusedWindow /\ ~hotkeysSuppressed
     THEN registerHotkeys(mainConfig, oc)
     ELSE UNCHANGED <<registered, results, attempted>>
  /\ flows' = [flows EXCEPT ![f].pc = "reply", ![f].msg = mainConfig]
  /\ UNCHANGED <<config, mainConfig, status, reassigned, chosenOutput, focused,
                 hotkeysSuppressed, mainWindow, dialogVars>>
  /\ UNCHANGED engineVars

\* renderer: updateConfig resumes with setConfig(next), and the assign handler
\* goes on with audio.preload(filePath) and setStatus
updateReplied(f) ==
  /\ ~Draining
  /\ f \in 1..Len(flows)
  /\ flows[f].op = "assign" /\ flows[f].pc = "reply"
  /\ config' = flows[f].msg
  /\ preloadCore(1, flows[f].path)
  /\ status' = "Assigned"
  /\ reassigned' = reassigned \cup
        {i \in Buttons : /\ config.buttons[i].path # NoPath
                         /\ flows[f].msg.buttons[i].path # NoPath
                         /\ flows[f].msg.buttons[i].path # config.buttons[i].path}
  /\ flows' = RemoveAt(flows, f)
  /\ UNCHANGED <<mainConfig, chosenOutput, mainVars, dialogVars>>

\* a setSinkId call has not settled yet
Binding == \E k \in 1..Len(tasks) : tasks[k].pc = "bind"

\* onOutputChange up to await audio.setOutput(val || null).  The select is
\* used again once the previous bind has settled.
onOutputChange(d) ==
  /\ ~Draining
  /\ Rendered
  /\ ~Binding
  /\ \A f \in 1..Len(flows) : flows[f].op # "output"
  /\ setOutputCore(1, d)
  /\ flows' = Append(flows,
        [Flow("output", "bind", 0, HandlerConfig, NoPath, NullConfig)
           EXCEPT !.dev = d])
  /\ chosenOutput' = d
  /\ UNCHANGED <<config, mainConfig, status, reassigned, mainVars, dialogVars>>

\* audio.setOutput has resolved: updateConfig({ outputDeviceId: val || null })
\* sends update-config
outputBound(f) ==
  /\ ~Draining
  /\ f \in 1..Len(flows)
  /\ flows[f].op = "output" /\ flows[f].pc = "bind"
  /\ ~Binding
  /\ flows' = [flows EXCEPT ![f].pc = "ipc",
                            ![f].msg = [flows[f].snap EXCEPT !.out = flows[f].dev]]
  /\ UNCHANGED <<config, mainConfig, status, reassigned, chosenOutput, mainVars, dialogVars>>
  /\ UNCHANGED engineVars

\* setStatus(val ? 'Output device changed' : 'Using default output')
OutputStatus(d) ==
  IF d # NoDevice THEN "Output device changed" ELSE "Using default output"

\* updateConfig resumes with setConfig(next), and onOutputChange sets the status
outputReplied(f) ==
  /\ ~Draining
  /\ f \in 1..Len(flows)
  /\ flows[f].op = "output" /\ flows[f].pc = "reply"
  /\ config' = flows[f].msg
  /\ status' = OutputStatus(flows[f].dev)
  /\ flows' = RemoveAt(flows, f)
  /\ UNCHANGED <<mainConfig, reassigned, chosenOutput, mainVars, dialogVars>>
  /\ UNCHANGED engineVars

\* Whether the App catches a rejection of an engine call.  triggerIndex awaits
\* audio.trigger outside any try, and its callers (onClick, onKeyDown, the
\* onTriggerButton listener) drop the promise it returns.
AppCatches(op) == FALSE

\* rejections that reach the renderer as unhandled promise rejections
Unhandled == {op \in Rejected : ~AppCatches(op)}

\* a test of the button's path that never finds it unassigned
NeverUnassigned(c, i) == FALSE

\* if (!btn || !btn.path) in triggerIndex: button i of c has no file
Unassigned(c, i) == c.buttons[i].path = NoPath

\* a click (or Enter / Space) on button i: triggerIndex(i) of the committed render
triggerIndex(i) ==
  /\ ~Draining
  /\ Rendered
  /\ LET c == HandlerConfig
     IN IF ~c.ok
        THEN UNCHANGED vars
        ELSE IF Unassigned(c, i)
        THEN /\ AssignIdle
             /\ flows' = Append(flows, Flow("assign", "picker", i, c, NoPath, NullConfig))
             /\ UNCHANGED <<config, mainConfig, status, reassigned, chosenOutput, mainVars, dialogVars>>
             /\ UNCHANGED engineVars
        ELSE /\ triggerCore(1, c.buttons[i])
             /\ UNCHANGED appVars

\* ---- main process: window focus, hotkey suppression, update-config calls
\* the application has been launched: app.whenReady has run
Launched == \A f \in 1..Len(flows) : flows[f].op # "launch"

\* the window has the focus and blur listeners, which app.whenReady attaches
\* to the window it creates (lines 150-162)
Listens == mainWindow = "first"

\* the window gets the focus; mainWindow.on('focus'): registerHotkeys()
windowFocus(oc) ==
  /\ Launched
  /\ mainWindow # "none"
  /\ ~focused
  /\ focused' = TRUE
  /\ IF Listens
     THEN registerHotkeys(mainConfig, oc)
     ELSE UNCHANGED <<registered, results, attempted>>
  /\ UNCHANGED <<config, mainConfig, flows, status, reassigned, chosenOutput, disk,
                 mainWindow, hotkeysSuppressed, dialogVars>>
  /\ UNCHANGED engineVars

\* the window loses the focus; mainWindow.on('blur'):
\* globalShortcut.unregisterAll()
windowBlur ==
  /\ Launched
  /\ focused
  /\ focused' = FALSE
  /\ IF Listens
     THEN registered' = {} /\ attempted' = NoHotkeys
     ELSE UNCHANGED <<registered, attempted>>
  /\ UNCHANGED <<config, mainConfig, flows, status, reassigned, chosenOutput, disk,
                 mainWindow, hotkeysSuppressed, results, dialogVars>>
  /\ UNCHANGED engineVars

\* the last window is closed while no update-config is in flight, on a
\* platform where the application stays alive (darwin): 'closed' sets
\* mainWindow = null, 'window-all-closed' calls globalShortcut.unregisterAll();
\* the renderer is gone
windowAllClosed ==
  /\ Launched
  /\ mainWindow # "none"
  /\ flows = <<BootFlow>>
  /\ hotkeyIndex = 0 /\ editIndex = 0 /\ enabledMsgs = <<>>
  /\ mainWindow' = "none"
  /\ focused' = FALSE
  /\ registered' = {}
  /\ attempted' = NoHotkeys
  /\ flows' = <<>>
  /\ UNCHANGED <<config, mainConfig, status, reassigned, chosenOutput, disk,
                 hotkeysSuppressed, results, dialogVars>>
  /\ UNCHANGED engineVars

\* app.on('activate') with no window left: createWindow().  The new window
\* gets no focus or blur listener; its renderer starts as at launch
activate ==
  /\ Launched
  /\ mainWindow = "none"
  /\ Len(enabledMsgs) < MaxMsgs
  /\ mainWindow' = "recreated"
  /\ flows' = <<BootFlow>>
  /\ enabledMsgs' = Append(enabledMsgs, TRUE)
  /\ UNCHANGED <<config, mainConfig, status, reassigned, chosenOutput, disk, focused,
                 hotkeysSuppressed, registered, results, attempted, hotkeyIndex,
                 editIndex>>
  /\ UNCHANGED engineVars

\* the body of the set-hotkeys-enabled handler; registerHotkeys() runs with
\* hotkeysSuppressed already false
setHotkeysEnabledCore(enabled, oc) ==
  /\ hotkeysSuppressed' = ~enabled
  /\ IF enabled /\ getFocusedWindow
     THEN /\ registered' = {a \in Configured(mainConfig) : oc[a] = "true"}
          /\ results' = Pushed(mainConfig, oc, 1)
          /\ attempted' = mainConfig.hotkeys
     ELSE /\ registered' = {}
          /\ attempted' = NoHotkeys
          /\ UNCHANGED results

\* ipcMain.on('set-hotkeys-enabled'), whatever the renderer sent
setHotkeysEnabled(enabled, oc) ==
  /\ Launched
  /\ setHotkeysEnabledCore(enabled, oc)
  /\ UNCHANGED <<config, mainConfig, flows, status, reassigned, chosenOutput, disk,
                 mainWindow, focused, dialogVars>>
  /\ UNCHANGED engineVars

\* ipcMain.on('set-hotkeys-enabled') for the oldest message the renderer's
\* suppression effect has sent
hotkeysEnabledReceived(oc) ==
  /\ Launched
  /\ enabledMsgs # <<>>
  /\ setHotkeysEnabledCore(Head(enabledMsgs), oc)
  /\ enabledMsgs' = Tail(enabledMsgs)
  /\ UNCHANGED <<config, mainConfig, flows, status, reassigned, chosenOutput, disk,
                 mainWindow, focused, hotkeyIndex, editIndex>>
  /\ UNCHANGED engineVars

\* ---- renderer: the hotkey and edit dialogs
\* the cleanup of the suppression effect of a render with hotkeyIndex = h and
\* editIndex = e: if (!stillDisable) setHotkeysEnabled(true)
Cleanup(h, e) == IF h = 0 /\ e = 0 THEN <<TRUE>> ELSE <<>>

\* what the suppression effect sends when a render with dialogs (h2, e2)
\* replaces one with (h, e): the old effect's cleanup, then
\* setHotkeysEnabled(!shouldDisable); nothing when the deps are unchanged
EffectMsgs(h, e, h2, e2) ==
  IF h = h2 /\ e = e2 THEN <<>>
  ELSE Cleanup(h, e) \o <<h2 = 0 /\ e2 = 0>>

\* setHotkeyIndex / setEditIndex, and the render and effect that follow
setDialogs(h2, e2) ==
  /\ Len(enabledMsgs) + Len(EffectMsgs(hotkeyIndex, editIndex, h2, e2)) <= MaxMsgs
  /\ hotkeyIndex' = h2
  /\ editIndex' = e2
  /\ enabledMsgs' = enabledMsgs \o EffectMsgs(hotkeyIndex, editIndex, h2, e2)

\* context menu "Set hotkey" on button i: setHotkeyIndex(i)
onSetHotkey(i) ==
  /\ ~Draining
  /\ Rendered
  /\ i \in 1..Len(config.buttons)
  /\ setDialogs(i, editIndex)
  /\ UNCHANGED <<config, mainConfig, flows, status, reassigned, chosenOutput, mainVars>>
  /\ UNCHANGED engineVars

\* context menu "Edit" on button i: setEditIndex(i)
onEdit(i) ==
  /\ ~Draining
  /\ Rendered
  /\ i \in 1..Len(config.buttons)
  /\ setDialogs(hotkeyIndex, i)
  /\ UNCHANGED <<config, mainConfig, flows, status, reassigned, chosenOutput, mainVars>>
  /\ UNCHANGED engineVars

\* HotkeyModal onCancel: setHotkeyIndex(null)
hotkeyCancel ==
  /\ ~Draining
  /\ hotkeyIndex # 0
  /\ setDialogs(0, editIndex)
  /\ UNCHANGED <<config, mainConfig, flows, status, reassigned, chosenOutput, mainVars>>
  /\ UNCHANGED engineVars

\* EditButtonModal onCancel: setEditIndex(null)
editCancel ==
  /\ ~Draining
  /\ editIndex # 0
  /\ setDialogs(hotkeyIndex, 0)
  /\ UNCHANGED <<config, mainConfig, flows, status, reassigned, chosenOutput, mainVars>>
  /\ UNCHANGED engineVars

\* the spellings an accelerator is typed in: 1 and 2 are normalized
\* accelerators (such as Control+1), CtrlSpelling is accelerator 1 written
\* with Ctrl
CtrlSpelling == 3

TypedAccelerators == Accelerators \cup {CtrlSpelling}

\* normalizeAccelerator: Ctrl becomes Control (and Cmd Command, Esc Escape);
\* a normalized accelerator is left as it is
normalizeAccelerator(acc) == IF acc = CtrlSpelling THEN 1 ELSE acc

\* a conflict test that never finds a conflict
NoConflict(c, i, n) == FALSE

\* setHotkey: conflict !== undefined && conflict !== i
Conflict(c, i, n) == c.hotkeys[n] # 0 /\ c.hotkeys[n] # i

\* the new map without the removal of button i's former accelerators
HotkeysAdded(c, i, n) == [c.hotkeys EXCEPT ![n] = i]

\* setHotkey: { ...config.hotkeys } without the keys that map to i, and with
\* hotkeys[normalized] = i
HotkeysSet(c, i, n) ==
  [a \in Accelerators |-> IF a = n THEN i
                          ELSE IF c.hotkeys[a] = i THEN 0 ELSE c.hotkeys[a]]

\* HotkeyModal onSave(acc): await setHotkey(hotkeyIndex, acc) up to its
\* await updateConfig({ hotkeys }); on a conflict setHotkey returns at once
\* and onSave goes on to setHotkeyIndex(null)
hotkeySave(acc) ==
  /\ ~Draining
  /\ hotkeyIndex # 0
  /\ Len(flows) < MaxFlows
  /\ LET c == HandlerConfig
         i == hotkeyIndex
         n == normalizeAccelerator(acc)
     IN IF Conflict(c, i, n)
        THEN /\ status' = "Hotkey already in use"
             /\ setDialogs(0, editIndex)
             /\ UNCHANGED flows
        ELSE /\ flows' = Append(flows, Flow("hotkey", "ipc", i, c, NoPath,
                                            [c EXCEPT !.hotkeys = HotkeysSet(c, i, n)]))
             /\ UNCHANGED <<status, dialogVars>>
  /\ UNCHANGED <<config, mainConfig, reassigned, chosenOutput, mainVars>>
  /\ UNCHANGED engineVars

\* updateConfig resumes in setHotkey: setConfig(next), setStatus('Hotkey set'),
\* and onSave goes on to setHotkeyIndex(null)
hotkeyReplied(f) ==
  /\ ~Draining
  /\ f \in 1..Len(flows)
  /\ flows[f].op = "hotkey" /\ flows[f].pc = "reply"
  /\ config' = flows[f].msg
  /\ status' = "Hotkey set"
  /\ setDialogs(0, editIndex)
  /\ flows' = RemoveAt(flows, f)
  /\ UNCHANGED <<mainConfig, reassigned, chosenOutput, mainVars>>
  /\ UNCHANGED engineVars

\* clearButton: the hotkeys without the keys that map to i
HotkeysCleared(c, i) == [a \in Accelerators |-> IF c.hotkeys[a] = i THEN 0 ELSE c.hotkeys[a]]

\* context menu "Clear" on button i: clearButton(i) up to await updateConfig
clearButton(i) ==
  /\ ~Draining
  /\ Rendered
  /\ i \in 1..Len(config.buttons)
  /\ Len(flows) < MaxFlows
  /\ LET c == HandlerConfig
     IN flows' = Append(flows, Flow("clear", "ipc", i, c, NoPath,
                                    [c EXCEPT !.buttons[i] = DefaultButton,
                                              !.hotkeys = HotkeysCleared(c, i)]))
  /\ UNCHANGED <<config, mainConfig, status, reassigned, chosenOutput, mainVars,
                 dialogVars>>
  /\ UNCHANGED engineVars

\* updateConfig resumes in clearButton: setConfig(next), setStatus('Button cleared')
clearReplied(f) ==
  /\ ~Draining
  /\ f \in 1..Len(flows)
  /\ flows[f].op = "clear" /\ flows[f].pc = "reply"
  /\ config' = flows[f].msg
  /\ status' = "Button cleared"
  /\ flows' = RemoveAt(flows, f)
  /\ UNCHANGED <<mainConfig, reassigned, chosenOutput, mainVars, dialogVars>>
  /\ UNCHANGED engineVars

\* a caller in the renderer invokes update-config with the object partial
invokeUpdate(partial) ==
  /\ Launched
  /\ Len(flows) < MaxFlows
  /\ flows' = Append(flows, Flow("invoke", "ipc", 0, NullConfig, NoPath, partial))
  /\ UNCHANGED <<config, mainConfig, status, reassigned, chosenOutput, mainVars, dialogVars>>
  /\ UNCHANGED engineVars

\* the promise of an update-config invocation resolves in the renderer
invokeReturned(f) ==
  /\ f \in 1..Len(flows)
  /\ flows[f].op = "invoke" /\ flows[f].pc = "reply"
  /\ flows' = RemoveAt(flows, f)
  /\ UNCHANGED <<config, mainConfig, status, reassigned, chosenOutput, mainVars, dialogVars>>
  /\ UNCHANGED engineVars

\* the config the onTriggerButton listener closes over.  The mount effect
\* (deps []) registers the listener once, with the triggerIndex of the first
\* render, whose config is the initial state null.
ListenerConfig == NullConfig

\* the listener is registered: the mount effect has gone through init and
\* the preloads
Listening ==
  /\ config.ok
  /\ \A f \in 1..Len(flows) : flows[f].op \notin {"launch", "boot"}

\* a trigger-button event for button i arrives: the listener calls the
\* triggerIndex(i) it closed over
onTriggerButton(i) ==
  /\ ~Draining
  /\ Listening
  /\ LET c == ListenerConfig
     IN IF ~c.ok
        THEN /\ last' = Call("triggerIndex", TRUE)
             /\ UNCHANGED <<failed, globMade, glob, refs, made, ctxState, canSetSink,
                            sink, cache, voices, active, tasks, timers, decoded,
                            overlap>>
             /\ UNCHANGED appVars
        ELSE IF Unassigned(c, i)
        THEN /\ AssignIdle
             /\ flows' = Append(flows, Flow("assign", "picker", i, c, NoPath, NullConfig))
             /\ UNCHANGED <<config, mainConfig, status, reassigned, chosenOutput,
                            mainVars, dialogVars>>
             /\ UNCHANGED engineVars
        ELSE /\ triggerCore(1, c.buttons[i])
             /\ UNCHANGED appVars

\* -------------------------------------------------------- specifications
InitEngine ==
  /\ glob = NullRefs
  /\ made = [ctx |-> 0, mainGain |-> 0, dest |-> 0, el |-> 0]
  /\ ctxState = <<>>
  /\ sink = <<>>
  /\ cache = [p \in Keys |-> NoBuf]
  /\ voices = <<>>
  /\ active = {}
  /\ tasks = <<>>
  /\ timers = <<>>
  /\ decoded = [p \in Keys |-> 0]
  /\ overlap = {}
  /\ last = Call("start", FALSE)
  /\ failed = {}

\* one component has rendered once: window.__cuecastAudio exists, the refs of
\* its useAudio instance are null, init has not been called
InitMounted ==
  /\ globMade = TRUE
  /\ refs = [h \in Hooks |-> [mounted |-> (h = 1), cell |-> NullRefs]]
  /\ InitEngine

\* main process after app.whenReady: no config file was found, the window
\* has the focus, and no hotkey is configured
MainReady ==
  /\ disk = NoFile
  /\ chosenOutput = NoDevice
  /\ focused = TRUE
  /\ hotkeysSuppressed = FALSE
  /\ hotkeyIndex = 0 /\ editIndex = 0 /\ enabledMsgs = <<>>
  /\ registered = {}
  /\ results = <<>>
  /\ mainWindow = (IF Launched THEN "first" ELSE "none")
  /\ attempted = NoHotkeys

\* the App plays no part: the engine's functions are called directly
AppIdle ==
  /\ config = NullConfig
  /\ mainConfig = DefaultConfig
  /\ flows = <<>>
  /\ status = "Ready"
  /\ reassigned = {}
  /\ MainReady

\* the one assigned button the engine specifications play, and an empty one
SameButton  == [path |-> 1, gain |-> 0]
EmptyButton == [path |-> NoPath, gain |-> DefaultGain]

\* The playback engine: cache, voices, stopAll, for one file.  No output device
\* is selected (init gets a null outputDeviceId, setOutput is not called).
Init ==
  /\ InitMounted
  /\ canSetSink = FALSE
  /\ AppIdle

Next ==
  \/ \E h \in Hooks : init(h, NoDevice)
  \/ \E h \in Hooks, b \in {SameButton, EmptyButton} : trigger(h, b)
  \/ \E k \in 1..MaxTasks : triggerResumed(k)
  \/ \E k \in 1..MaxTasks, ok \in BOOLEAN : readDone(k, ok)
  \/ \E k \in 1..MaxTasks, ok \in BOOLEAN : decodeDone(k, ok)
  \/ \E h \in Hooks, p \in {SameButton.path, NoPath} : preload(h, p)
  \/ \E h \in Hooks : stopAll(h)
  \/ clearTimer
  \/ \E v \in 1..MaxVoices : sourceStarted(v)
  \/ \E v \in 1..MaxVoices : onEnded(v)

Spec == Init /\ [][Next]_vars

\* The backend delivers the start and the 'ended' event of every started
\* source, the event loop runs every timer that is due, and a microtask that
\* is queued runs.
Fairness ==
  /\ \A v \in 1..MaxVoices : WF_vars(sourceStarted(v)) /\ WF_vars(onEnded(v))
  /\ WF_vars(clearTimer)
  /\ \A k \in 1..MaxTasks : WF_vars(Draining /\ triggerResumed(k))

\* Repeated triggers of one assigned button, with stopAll, under Fairness

NextSame ==
  \/ \E h \in Hooks : init(h, NoDevice)
  \/ \E h \in Hooks : trigger(h, SameButton)
  \/ \E k \in 1..MaxTasks : triggerResumed(k)
  \/ \E k \in 1..MaxTasks, ok \in BOOLEAN : readDone(k, ok)
  \/ \E k \in 1..MaxTasks, ok \in BOOLEAN : decodeDone(k, ok)
  \/ \E h \in Hooks : stopAll(h)
  \/ clearTimer
  \/ \E v \in 1..MaxVoices : sourceStarted(v)
  \/ \E v \in 1..MaxVoices : onEnded(v)

FairSpec == Init /\ [][NextSame]_vars /\ Fairness

\* Output device selection while one button, whose file reads and decodes, is
\* played, under Fairness
InitOutput ==
  /\ InitMounted
  /\ canSetSink \in BOOLEAN
  /\ AppIdle

NextOutput ==
  \/ \E h \in Hooks, d \in Devices \cup {NoDevice} : init(h, d)
  \/ \E h \in Hooks, d \in Devices \cup {NoDevice} : setOutput(h, d)
  \/ \E k \in 1..MaxTasks, ok \in BOOLEAN : setSinkIdDone(k, ok)
  \/ \E h \in Hooks : trigger(h, SameButton)
  \/ \E k \in 1..MaxTasks : triggerResumed(k)
  \/ \E k \in 1..MaxTasks : readDone(k, TRUE)
  \/ \E k \in 1..MaxTasks : decodeDone(k, TRUE)
  \/ \E v \in 1..MaxVoices : sourceStarted(v)
  \/ \E v \in 1..MaxVoices : onEnded(v)

SpecOutput == InitOutput /\ [][NextOutput]_vars /\ Fairness

\* The application launched with a file assigned to button 1: clicks on the
\* button and trigger-button events for it
InitHotkey ==
  /\ InitMounted
  /\ canSetSink = FALSE
  /\ config = NullConfig
  /\ mainConfig = DefaultConfig
  /\ flows = <<Flow("launch", "loadConfig", 0, NullConfig, NoPath, NullConfig)>>
  /\ status = "Ready"
  /\ reassigned = {}
  /\ disk = File(WithPath(DefaultConfig, 1, 1))
  /\ chosenOutput = NoDevice
  /\ focused = TRUE
  /\ hotkeysSuppressed = FALSE
  /\ hotkeyIndex = 0 /\ editIndex = 0 /\ enabledMsgs = <<>>
  /\ registered = {}
  /\ results = <<>>
  /\ mainWindow = (IF Launched THEN "first" ELSE "none")
  /\ attempted = NoHotkeys

NextHotkey ==
  \/ whenReady(1, AllRegister)
  \/ configLoaded(1)
  \/ \E f \in 1..Len(flows) : bootPreload(f)
  \/ \E i \in Buttons : onTriggerButton(i)
  \/ \E i \in Buttons : triggerIndex(i)
  \/ \E k \in 1..MaxTasks : triggerResumed(k)
  \/ \E k \in 1..MaxTasks : readDone(k, TRUE)
  \/ \E k \in 1..MaxTasks : decodeDone(k, TRUE)
  \/ \E v \in 1..MaxVoices : sourceStarted(v)
  \/ \E v \in 1..MaxVoices : onEnded(v)

SpecHotkey == InitHotkey /\ [][NextHotkey]_vars

\* a grid of two empty buttons, with accelerator 1 mapped to button 1
GridConfig ==
  [ok |-> TRUE, buttons |-> <<DefaultButton, DefaultButton>>,
   hotkeys |-> [a \in Accelerators |-> IF a = 1 THEN 1 ELSE 0], out |-> NoDevice]

\* The application launched on a stored grid of two buttons: the hotkey and
\* edit dialogs, hotkey changes, and the focus of the window
InitDialog ==
  /\ InitMounted
  /\ canSetSink = FALSE
  /\ config = NullConfig
  /\ mainConfig = DefaultConfig
  /\ flows = <<Flow("launch", "loadConfig", 0, NullConfig, NoPath, NullConfig)>>
  /\ status = "Ready"
  /\ reassigned = {}
  /\ disk = File(GridConfig)
  /\ chosenOutput = NoDevice
  /\ focused = TRUE
  /\ hotkeysSuppressed = FALSE
  /\ hotkeyIndex = 0 /\ editIndex = 0 /\ enabledMsgs = <<>>
  /\ registered = {}
  /\ results = <<>>
  /\ mainWindow = (IF Launched THEN "first" ELSE "none")
  /\ attempted = NoHotkeys

NextDialog ==
  \/ whenReady(1, AllRegister)
  \/ configLoaded(1)
  \/ \E f \in 1..Len(flows) : bootPreload(f)
  \/ \E i \in 1..Len(config.buttons) : onSetHotkey(i)
  \/ \E i \in 1..Len(config.buttons) : onEdit(i)
  \/ hotkeyCancel
  \/ editCancel
  \/ \E acc \in TypedAccelerators : flows = <<>> /\ hotkeySave(acc)
  \/ \E f \in 1..Len(flows) : hotkeyReplied(f)
  \/ hotkeysEnabledReceived(AllRegister)
  \/ windowFocus(AllRegister)
  \/ windowBlur
  \/ \E f \in 1..Len(flows) : mainUpdate(f)
  \/ \E f \in 1..Len(flows) : mainReturn(f, TRUE, AllRegister)

SpecDialog == InitDialog /\ [][NextDialog]_vars

\* at most one accelerator is mapped to each button index
OnePerButton(h) ==
  \A a, b \in Accelerators : (a # b /\ h[a] # 0) => h[a] # h[b]

\* a grid of two buttons without files, the first with a title given in the
\* edit dialog, and the hotkey map h
KeysConfig(h) ==
  [ok |-> TRUE,
   buttons |-> <<[label |-> 1, path |-> NoPath, gain |-> DefaultGain], DefaultButton>>,
   hotkeys |-> h, out |-> NoDevice]

\* The application launched on a stored grid whose hotkey map has at most one
\* accelerator per button: hotkeys set in the hotkey dialog and buttons
\* cleared from the context menu, one operation after the other
InitKeys ==
  /\ InitMounted
  /\ canSetSink = FALSE
  /\ config = NullConfig
  /\ mainConfig = DefaultConfig
  /\ flows = <<Flow("launch", "loadConfig", 0, NullConfig, NoPath, NullConfig)>>
  /\ status = "Ready"
  /\ reassigned = {}
  /\ disk \in {File(KeysConfig(h)) : h \in {g \in [Accelerators -> 0..2] : OnePerButton(g)}}
  /\ chosenOutput = NoDevice
  /\ focused = TRUE
  /\ hotkeysSuppressed = FALSE
  /\ hotkeyIndex = 0 /\ editIndex = 0 /\ enabledMsgs = <<>>
  /\ registered = {}
  /\ results = <<>>
  /\ mainWindow = "none"
  /\ attempted = NoHotkeys

NextKeys ==
  \/ whenReady(1, AllRegister)
  \/ configLoaded(1)
  \/ \E f \in 1..Len(flows) : bootPreload(f)
  \/ \E i \in 1..Len(config.buttons) : onSetHotkey(i)
  \/ hotkeyCancel
  \/ \E acc \in TypedAccelerators : flows = <<>> /\ hotkeySave(acc)
  \/ \E f \in 1..Len(flows) : hotkeyReplied(f)
  \/ \E i \in 1..Len(config.buttons) : flows = <<>> /\ clearButton(i)
  \/ \E f \in 1..Len(flows) : clearReplied(f)
  \/ hotkeysEnabledReceived(AllRegister)
  \/ \E f \in 1..Len(flows) : mainUpdate(f)
  \/ \E f \in 1..Len(flows) : mainReturn(f, TRUE, AllRegister)

SpecKeys == InitKeys /\ [][NextKeys]_vars

\* what config.json may hold at launch: nothing, text that is no JSON, the
\* JSON null, an object without buttons, an object whose buttons is no array,
\* and objects with a buttons array
StoredFiles ==
  {NoFile, [kind |-> "unparseable"], [kind |-> "null"],
   [kind |-> "json", arr |-> TRUE, val |-> [out |-> 1]],
   [kind |-> "json", arr |-> FALSE, val |-> [buttons |-> <<>>, out |-> 1]],
   [kind |-> "json", arr |-> TRUE,
    val |-> [buttons |-> WithPath(DefaultConfig, 1, 1).buttons]],
   File([DefaultConfig EXCEPT !.out = 1, !.hotkeys = [a \in Accelerators |-> 1]])}

\* the objects update-config is invoked with
Partials ==
  {[out |-> d] : d \in Devices \cup {NoDevice}}
    \cup {[hotkeys |-> [a \in Accelerators |-> IF a \in keys THEN 1 ELSE 0]] :
            keys \in SUBSET Accelerators}
    \cup {[buttons |-> WithPath(DefaultConfig, 1, 1).buttons, hotkeys |-> NoHotkeys]}

\* The main process from its launch: loadConfig, the focus of the window,
\* hotkey suppression, and update-config invocations
InitMain ==
  /\ InitMounted
  /\ canSetSink = FALSE
  /\ config = NullConfig
  /\ mainConfig = DefaultConfig
  /\ flows = <<Flow("launch", "loadConfig", 0, NullConfig, NoPath, NullConfig)>>
  /\ status = "Ready"
  /\ reassigned = {}
  /\ disk \in StoredFiles
  /\ chosenOutput = NoDevice
  /\ focused \in BOOLEAN
  /\ hotkeysSuppressed = FALSE
  /\ hotkeyIndex = 0 /\ editIndex = 0 /\ enabledMsgs = <<>>
  /\ registered = {}
  /\ results = <<>>
  /\ mainWindow = (IF Launched THEN "first" ELSE "none")
  /\ attempted = NoHotkeys

NextMain ==
  \/ \E oc \in [Accelerators -> Outcomes] : whenReady(1, oc)
  \/ \E oc \in [Accelerators -> Outcomes] : windowFocus(oc)
  \/ windowBlur
  \/ setHotkeysEnabled(FALSE, AllRegister)
  \/ \E oc \in [Accelerators -> Outcomes] : setHotkeysEnabled(TRUE, oc)
  \/ \E partial \in Partials : invokeUpdate(partial)
  \/ \E f \in 1..Len(flows) : mainUpdate(f)
  \/ \E f \in 1..Len(flows), ok \in BOOLEAN, oc \in [Accelerators -> Outcomes] :
        mainReturn(f, ok, oc)
  \/ \E f \in 1..Len(flows) : invokeReturned(f)

SpecMain == InitMain /\ [][NextMain]_vars

\* update-config invocations, two of which may be in flight at once, in a
\* launched application whose window has the focus
InitUpdate ==
  /\ InitMounted
  /\ canSetSink = FALSE
  /\ config = NullConfig
  /\ mainConfig = DefaultConfig
  /\ flows = <<>>
  /\ status = "Ready"
  /\ reassigned = {}
  /\ MainReady

NextUpdate ==
  \/ \E partial \in Partials : invokeUpdate(partial)
  \/ \E f \in 1..Len(flows) : mainUpdate(f)
  \/ \E f \in 1..Len(flows), ok \in BOOLEAN : mainReturn(f, ok, AllRegister)
  \/ \E f \in 1..Len(flows) : invokeReturned(f)

SpecUpdate == InitUpdate /\ [][NextUpdate]_vars

\* Overlapping update-config invocations whose writes all succeed; the
\* fs.writeFile calls of two handlers are in flight together and settle in
\* either order
NextSave ==
  \/ \E partial \in Partials : invokeUpdate(partial)
  \/ \E f \in 1..Len(flows) : mainUpdate(f)
  \/ \E f \in 1..Len(flows) : mainReturn(f, TRUE, AllRegister)
  \/ \E f \in 1..Len(flows) : invokeReturned(f)

SpecSave == InitUpdate /\ [][NextSave]_vars

\* The main process over the life of its windows: launch on a stored grid
\* with a hotkey, focus and blur, the last window closed and a new one
\* created by 'activate', the set-hotkeys-enabled message of each renderer's
\* mount, and update-config invocations
InitWindow ==
  /\ InitMounted
  /\ canSetSink = FALSE
  /\ config = NullConfig
  /\ mainConfig = DefaultConfig
  /\ flows = <<Flow("launch", "loadConfig", 0, NullConfig, NoPath, NullConfig)>>
  /\ status = "Ready"
  /\ reassigned = {}
  /\ disk = File(GridConfig)
  /\ chosenOutput = NoDevice
  /\ focused \in BOOLEAN
  /\ hotkeysSuppressed = FALSE
  /\ hotkeyIndex = 0 /\ editIndex = 0 /\ enabledMsgs = <<>>
  /\ registered = {}
  /\ results = <<>>
  /\ mainWindow = "none"
  /\ attempted = NoHotkeys

NextWindow ==
  \/ whenReady(1, AllRegister)
  \/ hotkeysEnabledReceived(AllRegister)
  \/ windowFocus(AllRegister)
  \/ windowBlur
  \/ windowAllClosed
  \/ activate
  \/ \E partial \in Partials : mainWindow # "none" /\ invokeUpdate(partial)
  \/ \E f \in 1..Len(flows) : mainUpdate(f)
  \/ \E f \in 1..Len(flows) : mainReturn(f, TRUE, AllRegister)
  \/ \E f \in 1..Len(flows) : invokeReturned(f)

SpecWindow == InitWindow /\ [][NextWindow]_vars

\* Triggers of one button, whose file reads and decodes, on a backend that
\* may suspend the context at any time
NextSuspend ==
  \/ \E h \in Hooks : init(h, NoDevice)
  \/ \E h \in Hooks : trigger(h, SameButton)
  \/ \E k \in 1..MaxTasks : triggerResumed(k)
  \/ \E k \in 1..MaxTasks : readDone(k, TRUE)
  \/ \E k \in 1..MaxTasks : decodeDone(k, TRUE)
  \/ \E c \in 1..MaxHooks : contextSuspended(c)
  \/ \E v \in 1..MaxVoices : sourceStarted(v)
  \/ \E v \in 1..MaxVoices : onEnded(v)

SpecSuspend == Init /\ [][NextSuspend]_vars

\* Components that call useAudio render and call init, from a fresh process
InitHooks ==
  /\ globMade = FALSE
  /\ refs = [h \in Hooks |-> [mounted |-> FALSE, cell |-> NullRefs]]
  /\ InitEngine
  /\ canSetSink \in BOOLEAN
  /\ AppIdle

NextHooks ==
  \/ \E h \in Hooks : useAudio(h)
  \/ \E h \in Hooks, d \in Devices \cup {NoDevice} : init(h, d)
  \/ \E k \in 1..MaxTasks, ok \in BOOLEAN : setSinkIdDone(k, ok)

SpecHooks == InitHooks /\ [][NextHooks]_vars

\* The App component from its first render: the mount effect, assignments of
\* files to buttons, and clicks on buttons
InitApp ==
  /\ InitMounted
  /\ canSetSink = FALSE
  /\ config = NullConfig
  /\ mainConfig = DefaultConfig
  /\ flows = <<Flow("boot", "getConfig", 0, NullConfig, NoPath, NullConfig)>>
  /\ status = "Ready"
  /\ reassigned = {}
  /\ MainReady

NextApp ==
  \/ configLoaded(1)
  \/ bootPreload(1)
  \/ triggerIndex(1)
  \/ assignAudio(1)
  \/ \E p \in Paths : assignAudioPath(1, p)
  \/ \E f \in 1..Len(flows), choice \in Paths : pickerDone(f, choice)
  \/ \E f \in 1..Len(flows) : mainUpdate(f)
  \/ \E f \in 1..Len(flows) : mainReturn(f, TRUE, AllRegister)
  \/ \E f \in 1..Len(flows) : updateReplied(f)
  \/ \E k \in 1..MaxTasks : triggerResumed(k)
  \/ \E k \in 1..MaxTasks, ok \in BOOLEAN : readDone(k, ok)
  \/ \E k \in 1..MaxTasks, ok \in BOOLEAN : decodeDone(k, ok)

SpecApp == InitApp /\ [][NextApp]_vars

\* Clicks on the buttons of the grid, with a file picker that may be
\* cancelled, from the default config
NextPicker ==
  \/ configLoaded(1)
  \/ bootPreload(1)
  \/ \E i \in Buttons : triggerIndex(i)
  \/ \E f \in 1..Len(flows), choice \in Paths \cup {NoPath} : pickerDone(f, choice)
  \/ \E f \in 1..Len(flows) : mainUpdate(f)
  \/ \E f \in 1..Len(flows) : mainReturn(f, TRUE, AllRegister)
  \/ \E f \in 1..Len(flows) : updateReplied(f)
  \/ \E k \in 1..MaxTasks : triggerResumed(k)
  \/ \E k \in 1..MaxTasks, ok \in BOOLEAN : readDone(k, ok)
  \/ \E k \in 1..MaxTasks, ok \in BOOLEAN : decodeDone(k, ok)
  \/ \E v \in 1..MaxVoices : sourceStarted(v)
  \/ \E v \in 1..MaxVoices : onEnded(v)

SpecPicker == InitApp /\ [][NextPicker]_vars

\* the devices the output select lists besides "Default Output"
audioOutputs == {1, 2}

\* The application from its launch with a stored output device or none: the
\* mount effect's init, and changes of the output select
InitDevice ==
  /\ InitMounted
  /\ canSetSink \in BOOLEAN
  /\ config = NullConfig
  /\ mainConfig = DefaultConfig
  /\ flows = <<Flow("launch", "loadConfig", 0, NullConfig, NoPath, NullConfig)>>
  /\ status = "Ready"
  /\ reassigned = {}
  /\ disk \in {NoFile} \cup {File([DefaultConfig EXCEPT !.out = d]) : d \in audioOutputs}
  /\ chosenOutput = NoDevice
  /\ focused = TRUE
  /\ hotkeysSuppressed = FALSE
  /\ hotkeyIndex = 0 /\ editIndex = 0 /\ enabledMsgs = <<>>
  /\ registered = {}
  /\ results = <<>>
  /\ mainWindow = (IF Launched THEN "first" ELSE "none")
  /\ attempted = NoHotkeys

NextDevice ==
  \/ whenReady(1, AllRegister)
  \/ configLoaded(1)
  \/ \E f \in 1..Len(flows) : bootPreload(f)
  \/ \E d \in audioOutputs \cup {NoDevice} : onOutputChange(d)
  \/ \E k \in 1..MaxTasks, ok \in BOOLEAN : setSinkIdDone(k, ok)
  \/ \E f \in 1..Len(flows) : outputBound(f)
  \/ \E f \in 1..Len(flows) : mainUpdate(f)
  \/ \E f \in 1..Len(flows) : mainReturn(f, TRUE, AllRegister)
  \/ \E f \in 1..Len(flows) : outputReplied(f)

SpecDevice == InitDevice /\ [][NextDevice]_vars

\* The application from its launch, on a platform that binds every device:
\* changes of the output select, and a file is assigned to an empty button
InitPersist ==
  /\ InitMounted
  /\ canSetSink = TRUE
  /\ config = NullConfig
  /\ mainConfig = DefaultConfig
  /\ flows = <<Flow("launch", "loadConfig", 0, NullConfig, NoPath, NullConfig)>>
  /\ status = "Ready"
  /\ reassigned = {}
  /\ disk \in {NoFile} \cup {File([DefaultConfig EXCEPT !.out = d]) : d \in audioOutputs}
  /\ chosenOutput = NoDevice
  /\ focused = TRUE
  /\ hotkeysSuppressed = FALSE
  /\ hotkeyIndex = 0 /\ editIndex = 0 /\ enabledMsgs = <<>>
  /\ registered = {}
  /\ results = <<>>
  /\ mainWindow = (IF Launched THEN "first" ELSE "none")
  /\ attempted = NoHotkeys

NextPersist ==
  \/ whenReady(1, AllRegister)
  \/ configLoaded(1)
  \/ \E f \in 1..Len(flows) : bootPreload(f)
  \/ \E d \in audioOutputs \cup {NoDevice} : onOutputChange(d)
  \/ \E k \in 1..MaxTasks : setSinkIdDone(k, TRUE)
  \/ \E f \in 1..Len(flows) : outputBound(f)
  \/ \E f \in 1..Len(flows) : mainUpdate(f)
  \/ \E f \in 1..Len(flows) : mainReturn(f, TRUE, AllRegister)
  \/ \E f \in 1..Len(flows) : outputReplied(f)
  \/ assignAudio(1)
  \/ \E f \in 1..Len(flows) : pickerDone(f, 1)
  \/ \E f \in 1..Len(flows) : updateReplied(f)
  \/ \E k \in 1..MaxTasks : readDone(k, TRUE)
  \/ \E k \in 1..MaxTasks : decodeDone(k, TRUE)

SpecPersist == InitPersist /\ [][NextPersist]_vars

\* ================================================================ claims
VoiceIds == 1..Len(voices)

\* p has an entry in the decode cache
Cached(p) == cache[p] # NoBuf

\* a read or decode of p started by an earlier call has not settled yet
Decoding(p) == \E k \in 1..Len(tasks) :
                  tasks[k].path = p /\ tasks[k].pc \in {"read", "decode"}

\* the reads and decodes of p that have not settled yet
Pending(p) == {k \in 1..Len(tasks) :
                 tasks[k].path = p /\ tasks[k].pc \in {"read", "decode"}}

\* a step creates a voice
Created == Len(voices') > Len(voices)

\* the voice a step creates
NewestVoice == voices'[Len(voices')]

\* C1: decode cache memoization.  Once p is cached, no step starts a read or
\* a decode of p; once, besides, no read or decode of p that began earlier is
\* still pending, no buffer is decoded for p, the cache entry of p stays the
\* identical buffer, and every voice created for p plays exactly that buffer;
\* for calls of p that never overlap, at most one buffer is ever decoded for p.
C1_Memo ==
  /\ [][\A p \in Paths :
          Cached(p) => Cardinality(Pending(p)') <= Cardinality(Pending(p))]_vars
  /\ [][\A p \in Paths :
          (Cached(p) /\ ~Decoding(p)) =>
             /\ ~Decoding(p)'
             /\ decoded'[p] = decoded[p]
             /\ cache'[p] = cache[p]
             /\ (Created /\ NewestVoice.path = p => NewestVoice.buf = cache[p])]_vars
  /\ [](\A p \in Paths : p \notin overlap => decoded[p] <= 1)

\* C1 witness: p was decoded once, by calls that never overlapped, is cached,
\* and two voices play its one buffer, the later one after a trigger that
\* found it in the cache
C1_Witness ==
  \E p \in Paths :
    /\ Cached(p) /\ decoded[p] = 1 /\ p \notin overlap
    /\ Len(voices) >= 2
    /\ voices[1].buf = cache[p] /\ voices[2].buf = cache[p]
    /\ last = Call("trigger", FALSE)

\* voices created for file p
VoicesOf(p) == {v \in VoiceIds : voices[v].path = p}

\* C2 (as claimed): when overlapping calls of one path have produced several
\* voices, exactly one buffer was decoded for that path.
C2_DecodeOnce ==
  \A p \in overlap : Cardinality(VoicesOf(p)) >= 2 => decoded[p] = 1

\* C3: trigger of a button without a path changes nothing in the engine: no
\* voice, no change of the active set or the cache, no read or decode, no
\* pending call, no resume of the context.
C3_NullPathNoop ==
  [][\A h \in Hooks, b \in ButtonConfigs :
       (b.path = NoPath /\ trigger(h, b)) =>
          UNCHANGED <<failed, globMade, glob, refs, made, ctxState, canSetSink, sink,
                      cache, voices, active, tasks, timers, decoded, failed>>]_vars

\* C3 witness: the last call was a trigger that returned at its guard although
\* the graph exists, made while the context was suspended or a voice active
C3_Witness ==
  /\ last = Call("trigger", TRUE)
  /\ made.ctx = 1
  /\ refs[1].cell.ctx = 1 /\ refs[1].cell.mainGain = 1
  /\ \/ ctxState[1] = "suspended"
     \/ active # {}

\* C4: every step that creates a voice creates exactly one, adds it to the
\* active set whatever the number of voices already active, and leaves the
\* other voices alone; and, the backend signalling the end of every started
\* source, every voice created eventually is Completed and outside the
\* active set.
C4_Polyphony ==
  /\ [][Created =>
          /\ Len(voices') = Len(voices) + 1
          /\ NewestVoice.state = "Scheduled"
          /\ active' = active \cup {Len(voices')}
          /\ Len(voices') \notin active
          /\ \A v \in VoiceIds : voices'[v] = voices[v]]_vars
  /\ \A v \in 1..MaxVoices :
        (Len(voices) >= v) ~>
           (Len(voices) >= v /\ voices[v].state = "Completed" /\ v \notin active)

\* C4 witness: as many voices as the run allows, all of one file, all active
C4_Witness ==
  /\ Len(voices) = MaxVoices
  /\ active = 1..MaxVoices
  /\ \A v \in VoiceIds : voices[v].path = voices[1].path

\* C5: stopAll puts every voice of the active set into Stopping with the
\* fade-out ramp and the stop time scheduled; when the cleanup timer of that
\* call runs, none of those voices is in the active set, and no voice ever
\* comes back into the active set; the timer does run.
C5_StopAll ==
  /\ [][\A h \in Hooks :
          (stopAll(h) /\ refs[h].cell.ctx # NoNode) =>
             /\ Len(timers') = Len(timers) + 1
             /\ timers'[Len(timers')] = [delay |-> CleanupDelayMs, snap |-> active]
             /\ \A v \in active :
                   /\ voices'[v].state = "Stopping"
                   /\ voices'[v].fadeOut = FadeOutMs
                   /\ voices'[v].stopAt = StopOffsetMs]_vars
  /\ [][clearTimer => Head(timers).snap \cap active' = {}]_vars
  /\ [][\A v \in VoiceIds : v \notin active => v \notin active']_vars
  /\ \A v \in 1..MaxVoices :
        (\E t \in 1..Len(timers) : v \in timers[t].snap) ~> (v \notin active)

\* C5 witness: a stopAll call has put two active voices into Stopping
C5_Witness ==
  /\ last = Call("stopAll", FALSE)
  /\ Len(timers) > 0
  /\ Cardinality(Head(timers).snap) >= 2
  /\ \A v \in Head(timers).snap : voices[v].state = "Stopping"

\* C6 (as claimed): the timer of a stopAll that was called with an empty
\* active set leaves the active set as it is.
C6_EmptyStopAllNoop ==
  [][(clearTimer /\ Head(timers).snap = {}) => active' = active]_vars

\* C7 (as claimed): whatever hook instances render and call init, at most one
\* context, one bus gain, one stream destination and one playback element
\* have been constructed.
C7_SingleGraph ==
  /\ made.ctx <= 1
  /\ made.mainGain <= 1
  /\ made.dest <= 1
  /\ made.el <= 1

\* C8 (as claimed, for the voices that no stop has been scheduled for): every
\* voice that is scheduled or playing is in the active set.
C8_Ownership ==
  \A v \in VoiceIds : voices[v].state \in {"Scheduled", "Playing"} => v \in active

\* C9: a setOutput call, and the settling of its setSinkId with either
\* outcome, leave the active set, every voice (gain schedule, state,
\* connection), the graph and the decode cache as they are; and a voice that
\* exists while the device is being switched still completes.
C9_OutputFrame ==
  /\ [][(\/ \E h \in Hooks, d \in Devices \cup {NoDevice} : setOutput(h, d)
         \/ \E k \in 1..MaxTasks, ok \in BOOLEAN :
               setSinkIdDone(k, ok))
        => UNCHANGED <<active, voices, cache, decoded, made, ctxState, glob,
                       refs, timers>>]_vars
  /\ \A v \in 1..MaxVoices :
        (Len(voices) >= v /\ Binding) ~>
           (Len(voices) >= v /\ voices[v].state = "Completed")

\* C9 witness: setOutput was the last call, its setSinkId is pending, and a
\* voice that was started before is playing
C9_Witness ==
  /\ last = Call("setOutput", FALSE)
  /\ Binding
  /\ \E v \in active : voices[v].state = "Playing"

\* C10: every voice plays a buffer decoded from the path its trigger was
\* called with, and every cache entry holds a buffer decoded from its key; an
\* assignment leaves the button with the file chosen; and a click on an
\* assigned button calls trigger with the button's current path: it starts a
\* read of that path or a voice with the buffer cached for that path.
C10_Reassign ==
  /\ [](\A v \in VoiceIds : voices[v].buf # NoBuf /\ voices[v].buf.from = voices[v].path)
  /\ [](\A p \in Paths : Cached(p) => cache[p].from = p)
  /\ [][\A f \in 1..Len(flows) :
          updateReplied(f) => config'.buttons[flows[f].idx].path = flows[f].path]_vars
  /\ [][\A i \in Buttons :
          (triggerIndex(i) /\ Rendered /\ config.buttons[i].path # NoPath) =>
             LET q == config.buttons[i].path
             IN \/ /\ Len(tasks') = Len(tasks) + 1
                   /\ tasks'[Len(tasks')].op = "trigger"
                   /\ tasks'[Len(tasks')].path = q
                   /\ UNCHANGED voices
                \/ /\ Created
                   /\ NewestVoice.path = q
                   /\ NewestVoice.buf = cache[q]
                   /\ UNCHANGED tasks]_vars

\* C10 witness: the button was reassigned from one file to another while the
\* first file's buffer stayed in the cache, and the button's latest voice
\* plays a buffer of the file it is assigned now
C10_Witness ==
  /\ reassigned # {}
  /\ \E i \in reassigned, p \in Paths :
        /\ p # config.buttons[i].path
        /\ Cached(p)
        /\ Len(voices) >= 2
        /\ voices[1].path = p
        /\ voices[Len(voices)].path = config.buttons[i].path
        /\ voices[Len(voices)].buf.from = config.buttons[i].path
  /\ last = Call("trigger", FALSE)

\* no assignment and no engine call is in progress
Quiet == flows = <<>> /\ tasks = <<>>

\* C11 (as claimed): once the assignments and their preloads have finished,
\* every cached path is the path of some button.
C11_NoOrphans ==
  Quiet => \A p \in Paths :
              Cached(p) => \E i \in Buttons : config.buttons[i].path = p

\* the task a step appends
NewestTask == tasks'[Len(tasks')]

\* C12: preload never rejects to its caller; a failed read or decode of a
\* preload adds no cache entry and touches no voice; and a trigger of a path
\* without a cache entry starts the read (and with it the decode) again, at
\* once or after the resume it awaits.
C12_PreloadBestEffort ==
  /\ []("preload" \notin Rejected)
  /\ [][\A k \in 1..Len(tasks) :
          (tasks[k].op = "preload" /\ (readDone(k, FALSE) \/ decodeDone(k, FALSE)))
            => /\ cache' = cache
               /\ voices' = voices
               /\ active' = active]_vars
  /\ [][\A h \in Hooks, b \in ButtonConfigs :
          (trigger(h, b) /\ ~TriggerReturnsEarly(h, b) /\ ~Cached(b.path))
            => /\ Len(tasks') = Len(tasks) + 1
               /\ NewestTask.op = "trigger"
               /\ NewestTask.path = b.path
               /\ NewestTask.pc \in {"resume", "read"}]_vars
  /\ [][\A k \in 1..Len(tasks) :
          (triggerResumed(k) /\ ~Cached(tasks[k].path))
            => tasks'[k].pc = "read"]_vars

\* C12 witness: a preload has failed, nothing was ever decoded for the path,
\* and a trigger called afterwards is reading the file again
C12_Witness ==
  /\ "preload" \in failed
  /\ "trigger" \notin failed
  /\ last = Call("trigger", FALSE)
  /\ \E k \in 1..Len(tasks) :
        /\ tasks[k].op = "trigger"
        /\ tasks[k].pc = "read"
        /\ ~Cached(tasks[k].path)
        /\ decoded[tasks[k].path] = 0
  /\ \A k \in 1..Len(tasks) : tasks[k].op # "preload"

\* what a trigger call that never reaches line 88 must leave alone
Unplayed == <<voices, active, cache, decoded, timers>>

\* C13: a trigger whose read or decode fails creates no voice and changes
\* neither the active set nor the cache: the call's first step only suspends
\* it, the resume it may await only resumes the context, and the failing await
\* only ends the call.
C13_FailedTriggerSilent ==
  /\ [][\A k \in 1..Len(tasks) :
          (tasks[k].op = "trigger" /\ (readDone(k, FALSE) \/ decodeDone(k, FALSE)))
            => UNCHANGED Unplayed /\ tasks' = RemoveAt(tasks, k)]_vars
  /\ [][\A h \in Hooks, b \in ButtonConfigs :
          (trigger(h, b) /\ Len(tasks') > Len(tasks)) => UNCHANGED Unplayed]_vars
  /\ [][\A k \in 1..Len(tasks) :
          (triggerResumed(k) /\ Len(tasks') = Len(tasks)) => UNCHANGED Unplayed]_vars

\* C13 witness: a trigger has failed and ended; the context runs, and there is
\* no voice, no active voice and no cache entry
C13_Witness ==
  /\ "trigger" \in failed
  /\ tasks = <<>>
  /\ made.ctx = 1 /\ ctxState[1] = "running"
  /\ voices = <<>> /\ active = {}
  /\ \A p \in Paths : ~Cached(p)

\* C14 (as claimed): no failure of a trigger started from the grid ends as an
\* unhandled promise rejection.
C14_NoUnhandled == Unhandled = {}

\* C15 (as claimed): when an assignment has finished and the file assigned
\* could not be read or decoded, the status does not report success.
C15_AssignFailureShown ==
  \A i \in Buttons :
     (/\ Quiet
      /\ "preload" \in failed
      /\ config.ok
      /\ config.buttons[i].path # NoPath
      /\ ~Cached(config.buttons[i].path))
       => status # "Assigned"

\* C16: no init or setOutput call rejects because of the device binding.  On
\* a platform whose audio element has no setSinkId the call awaits nothing
\* and is over in its one step; a rejected setSinkId ends the call without
\* rejecting it.
C16_BindNeverThrows ==
  /\ []("bind" \notin Rejected)
  /\ [][\A h \in Hooks, d \in Devices \cup {NoDevice} :
          ((init(h, d) \/ setOutput(h, d)) /\ ~canSetSink) => tasks' = tasks]_vars
  /\ [][\A k \in 1..Len(tasks) :
          setSinkIdDone(k, FALSE) =>
             /\ tasks' = RemoveAt(tasks, k)
             /\ Rejected' = Rejected]_vars

\* C16 witness: a setSinkId has been rejected, no bind is pending any more,
\* and the last call was a setOutput that did call setSinkId
C16_Witness ==
  /\ "bind" \in failed
  /\ ~Binding
  /\ canSetSink
  /\ last = Call("setOutput", FALSE)

\* the playback element of the App's engine
AppSink == sink[refs[1].cell.el]

\* C17 (as claimed): when an output change has finished and the status says
\* the output device was changed, the element is bound to the device chosen.
C17_BindFailureShown ==
  (/\ status = "Output device changed"
   /\ flows = <<>>
   /\ ~Binding)
    => AppSink = config.out

\* C18 (as claimed): a rejected setSinkId for a device other than the one the
\* element is bound to leaves the element on the system default, whatever it
\* was bound to before.
C18_FailedBindFallsBack ==
  [][\A k \in 1..Len(tasks) :
       (/\ setSinkIdDone(k, FALSE)
        /\ tasks[k].dev # NoDevice
        /\ tasks[k].dev # sink[tasks[k].node])
         => sink'[tasks[k].node] = NoDevice]_vars

\* C19 (as claimed): whenever a step calls start() on a new voice's source,
\* the context of that voice is running once the step is done, also when the
\* backend suspended the context while the trigger awaited its read or decode.
C19_ResumeBeforePlay ==
  [][Created => ctxState'[NewestVoice.ctx] = "running"]_vars

\* no init has run: no context and no bus exist
NotInitialized == made.ctx = 0 /\ made.mainGain = 0

\* C20: before the first init, a call of trigger, preload or stopAll returns
\* at its guard: it creates no voice, starts no read or decode, schedules no
\* timer, leaves the cache and the active set as they were, constructs
\* nothing, and no await of it fails.
C20_NotInitializedNoop ==
  [][\A h \in Hooks :
       (/\ NotInitialized
        /\ \/ \E b \in ButtonConfigs : trigger(h, b)
           \/ \E p \in Keys : preload(h, p)
           \/ stopAll(h))
         => /\ last'.early
            /\ UNCHANGED <<voices, active, cache, tasks, timers, decoded, failed,
                           made, ctxState, glob, refs>>]_vars

\* C20 witness: stopAll was called and returned at its guard before any init.
C20_Witness ==
  /\ NotInitialized
  /\ last = Call("stopAll", TRUE)
  /\ voices = <<>> /\ tasks = <<>> /\ timers = <<>>

\* the state changes of a voice that the two sequences allow
Lifecycle ==
  {<<"Scheduled", "Playing">>, <<"Playing", "Completed">>,
   <<"Playing", "Stopping">>, <<"Stopping", "Completed">>}

\* C21 (as claimed): a new voice is Scheduled, every change of a voice's
\* state is a step of Scheduled -> Playing -> [Stopping ->] Completed,
\* Stopping is entered only by stopAll, and nothing but the backend's start
\* and 'ended' events and stopAll changes the state of a voice.
C21_Lifecycle ==
  [][/\ Created => NewestVoice.state = "Scheduled"
     /\ \A v \in 1..Len(voices) :
          voices'[v].state # voices[v].state =>
            /\ <<voices[v].state, voices'[v].state>> \in Lifecycle
            /\ voices'[v].state = "Stopping" => \E h \in Hooks : stopAll(h)
            /\ \/ sourceStarted(v)
               \/ onEnded(v)
               \/ \E h \in Hooks : stopAll(h)]_vars

\* C22: voice independence on completion.  The 'ended' listener of voice v
\* disconnects v's nodes and removes exactly v from the active set; every
\* other voice keeps its membership, its gain schedule and its state.
C22_EndedFrame ==
  [][\A v \in 1..Len(voices) :
       onEnded(v) =>
         /\ ~voices'[v].connected
         /\ v \notin active'
         /\ Len(voices') = Len(voices)
         /\ \A w \in 1..Len(voices) \ {v} :
              /\ voices'[w] = voices[w]
              /\ (w \in active') = (w \in active)]_vars

\* C22 witness: one voice has ended and left the active set, disconnected,
\* while another is still playing and still a member.
C22_Witness ==
  \E v, w \in VoiceIds :
    /\ v # w
    /\ voices[v].state = "Completed" /\ ~voices[v].connected /\ v \notin active
    /\ voices[w].state = "Playing" /\ voices[w].connected /\ w \in active

\* an earlier call of trigger for path p that has not looked into the cache
\* yet: it waits at line 81, ahead of position n of the pending calls
WaitsAhead(p, n) ==
  \E j \in 1..(n - 1) :
     tasks[j].op = "trigger" /\ tasks[j].path = p /\ tasks[j].pc = "resume"

StoredOutput == Loaded(DefaultConfig, disk).out

\* C24 (as claimed): output selection persists.  Once no handler is in
\* flight, config.json holds the output the user chose last, and the mount
\* effect calls init with exactly the stored outputDeviceId.
C24_OutputPersists ==
  /\ []((config.ok /\ flows = <<>>) => StoredOutput = chosenOutput)
  /\ [][configLoaded(1) => initCore(1, StoredOutput)]_vars

\* C25 (as claimed): a trigger-button event for a button that has a path in
\* the current configuration calls the engine's trigger with that button as
\* it is in the current configuration.
C25_HotkeyTriggersCurrent ==
  [][\A i \in Buttons :
       (/\ onTriggerButton(i)
        /\ config.buttons[i].path # NoPath)
         => /\ last' = Call("trigger", FALSE)
            /\ triggerCore(1, config.buttons[i])]_vars
\* C26 (as claimed): hotkeys work globally: while hotkeys are not suppressed, the window
\* losing the focus leaves every registered hotkey registered
C26_HotkeysGlobal ==
  [][(windowBlur /\ ~hotkeysSuppressed) => registered' = registered]_vars

\* the top-level fields of AppConfig
ConfigFields == {"buttons", "hotkeys", "out"}

\* C27 (as claimed): the value update-config returns to its caller is the
\* merged config of that call, the stored config as its own merge left it.
C27_ReturnsOwnMerge ==
  [][\A f \in 1..Len(flows), ok \in BOOLEAN :
       mainReturn(f, ok, AllRegister) => flows'[f].msg = flows[f].msg]_vars

\* C27 (amended): update-config(partial) leaves in the stored config the value
\* of partial for every top-level field partial has and the former value for
\* every other field, and the value returned to the caller is the stored
\* config as it is when the handler returns.
C27_MergeSemantics ==
  /\ [][\A f \in 1..Len(flows) :
          mainUpdate(f) =>
            \A field \in ConfigFields :
              mainConfig'[field] = IF field \in DOMAIN flows[f].msg
                                   THEN flows[f].msg[field]
                                   ELSE mainConfig[field]]_vars
  /\ [][\A f \in 1..Len(flows), ok \in BOOLEAN :
          mainReturn(f, ok, AllRegister) =>
            /\ flows'[f].msg = mainConfig'
            /\ mainConfig' = mainConfig]_vars

\* two update-config calls overlapped, and the first one to return was handed
\* a config holding the fields of both
C27_Witness ==
  /\ Len(flows) = 2
  /\ flows[1].op = "invoke" /\ flows[1].pc = "reply"
  /\ flows[2].op = "invoke" /\ flows[2].pc = "saving"
  /\ flows[1].msg = mainConfig
  /\ mainConfig.out = 1
  /\ mainConfig.hotkeys # NoHotkeys

\* config.json is missing, is no JSON, or holds no object with a buttons array
Unusable(file) ==
  \/ file.kind # "json"
  \/ /\ file.kind = "json"
     /\ ~("buttons" \in DOMAIN file.val /\ file.arr)

\* C28: when config.json is missing, is not parseable JSON or has no buttons
\* array, loadConfig does not throw (the launch goes on to create the window)
\* and the in-memory config stays the defaults.
C28_CorruptConfig ==
  [][\A oc \in [Accelerators -> Outcomes] :
       (whenReady(1, oc) /\ Unusable(disk)) =>
         /\ mainConfig' = DefaultConfig
         /\ Launched']_vars

\* the application was launched on a config.json whose buttons is no array
C28_Witness ==
  /\ Launched
  /\ disk.kind = "json" /\ ~disk.arr
  /\ mainConfig = DefaultConfig

\* the step calls registerHotkeys() while hotkeys are not suppressed, and
\* globalShortcut.register does per accelerator what oc says
Registering(oc) ==
  \/ focused /\ whenReady(1, oc)
  \/ ~hotkeysSuppressed /\ windowFocus(oc)
  \/ focused /\ setHotkeysEnabled(TRUE, oc)
  \/ /\ focused /\ ~hotkeysSuppressed
     /\ \E f \in 1..Len(flows), ok \in BOOLEAN : mainReturn(f, ok, oc)

\* C29: a hotkey whose registration returns false or throws stops neither
\* the application nor the registration of the other hotkeys: registerHotkeys,
\* when not suppressed, returns exactly one result per configured accelerator,
\* with ok = false for exactly the ones that failed, and the others are
\* registered.
C29_FailedHotkeys ==
  [][\A oc \in [Accelerators -> Outcomes] :
       Registering(oc) =>
         /\ Len(results') = Cardinality(Configured(mainConfig'))
         /\ \A a \in Configured(mainConfig') :
              \E k \in 1..Len(results') : results'[k].accelerator = a
         /\ \A k \in 1..Len(results') :
              /\ results'[k].accelerator \in Configured(mainConfig')
              /\ results'[k].ok = (oc[results'[k].accelerator] = "true")
         /\ registered' = {a \in Configured(mainConfig') : oc[a] = "true"}]_vars

\* registerHotkeys returned two results: the first accelerator failed, and
\* the second one is registered
C29_Witness ==
  /\ focused /\ ~hotkeysSuppressed
  /\ Len(results) = 2
  /\ ~results[1].ok
  /\ results[2].ok
  /\ registered = {results[2].accelerator}

\* C30: activating a button that has no assigned path never calls the
\* engine's trigger: it opens the file picker for that button; and when the
\* picker is cancelled the configuration is left unchanged, in the renderer,
\* in the main process and on disk.
C30_EmptyButton ==
  /\ [][\A i \in Buttons :
          (triggerIndex(i) /\ config.buttons[i].path = NoPath) =>
            /\ UNCHANGED engineVars
            /\ Len(flows') = Len(flows) + 1
            /\ flows'[Len(flows')].op = "assign"
            /\ flows'[Len(flows')].pc = "picker"
            /\ flows'[Len(flows')].idx = i]_vars
  /\ [][\A f \in 1..Len(flows) :
          pickerDone(f, NoPath) =>
            /\ UNCHANGED <<config, mainConfig, disk>>
            /\ \A g \in 1..Len(flows') : flows'[g].pc # "ipc"]_vars

\* the picker opened by a click on the empty button 1 was cancelled, and the
\* button is still empty
C30_Witness ==
  /\ status = "Assignment canceled"
  /\ flows = <<>>
  /\ config.ok
  /\ config.buttons[1].path = NoPath
  /\ mainConfig = DefaultConfig
  /\ disk = NoFile

RendererEnabled ==
  IF enabledMsgs = <<>> THEN ~hotkeysSuppressed ELSE enabledMsgs[Len(enabledMsgs)]

\* C32: while the hotkey or the edit dialog is open the renderer has hotkeys
\* disabled; in the main process no global shortcut is registered in any state
\* where hotkeysSuppressed is true; and with the last dialog closed the
\* renderer has them enabled again.
C32_Suppression ==
  /\ hotkeysSuppressed => registered = {}
  /\ (hotkeyIndex # 0 \/ editIndex # 0) => ~RendererEnabled
  /\ (Launched /\ hotkeyIndex = 0 /\ editIndex = 0) => RendererEnabled

\* a dialog is open, the main process has hotkeys suppressed, the window got
\* the focus back and an update-config was handled, and nothing is registered
C32_Witness ==
  /\ hotkeyIndex # 0
  /\ hotkeysSuppressed
  /\ focused
  /\ Configured(mainConfig) # {}
  /\ results = <<>>
  /\ \E f \in 1..Len(flows) : flows[f].op = "hotkey" /\ flows[f].pc = "reply"
  /\ registered = {}

\* C33: stopAll is issued only to the voices in the active set at the moment
\* of the call and cancels no pending trigger: the calls suspended at an await
\* stay as they are and the voices outside the active set are untouched; and
\* a trigger whose resume or decode completes, after a stopAll or not, creates
\* its voice in the active set, scheduled to start, with no fade-out and no
\* stop.
C33_StopAllScope ==
  /\ [][\A h \in Hooks :
          stopAll(h) =>
            /\ tasks' = tasks
            /\ Len(voices') = Len(voices)
            /\ \A v \in 1..Len(voices) : v \notin active => voices'[v] = voices[v]]_vars
  /\ [][\A k \in 1..Len(tasks) :
          (/\ tasks[k].op = "trigger"
           /\ \/ decodeDone(k, TRUE)
              \/ triggerResumed(k) /\ CacheHit(tasks[k].path)) =>
            /\ Len(voices') = Len(voices) + 1
            /\ voices'[Len(voices')].path = tasks[k].path
            /\ voices'[Len(voices')].state = "Scheduled"
            /\ voices'[Len(voices')].fadeOut = 0
            /\ voices'[Len(voices')].stopAt = 0
            /\ Len(voices') \in active'
            /\ \A v \in 1..Len(voices) : voices'[v] = voices[v]]_vars

\* the last call was a stopAll that faded a voice; a trigger that was pending
\* at that call has since created its voice, which is active and scheduled
C33_Witness ==
  /\ last = Call("stopAll", FALSE)
  /\ Len(timers) > 0
  /\ \E v \in Head(timers).snap : voices[v].state = "Stopping"
  /\ \E w \in active :
        /\ w \notin Head(timers).snap
        /\ voices[w].state = "Scheduled"
        /\ voices[w].fadeOut = 0

\* C34 (as claimed): no lost config updates: an update-config sent by an
\* action that changes one field never sets another field of the stored
\* config back to an older value.  An assignment changes buttons only, and a
\* change of the output device outputDeviceId only.
C34_NoLostUpdates ==
  [][\A f \in 1..Len(flows) :
       mainUpdate(f) =>
         /\ flows[f].op = "assign" =>
               mainConfig'.out = mainConfig.out /\ mainConfig'.hotkeys = mainConfig.hotkeys
         /\ flows[f].op = "output" =>
               mainConfig'.buttons = mainConfig.buttons
                 /\ mainConfig'.hotkeys = mainConfig.hotkeys]_vars

\* nothing is on its way to the main process or being handled by it
QuiescentMain ==
  /\ enabledMsgs = <<>>
  /\ \A f \in 1..Len(flows) : flows[f].pc \notin {"launch", "loadConfig", "ipc", "saving"}

\* C35 (as claimed): registration tracks configuration: in every quiescent
\* state where a window exists and has the focus and hotkeys are not
\* suppressed, registerHotkeys has last called register for exactly the
\* accelerators of the current config.hotkeys with their current button
\* indices, also for a window created by the 'activate' event.
C35_RegistrationTracks ==
  (/\ Launched
   /\ mainWindow # "none"
   /\ focused
   /\ ~hotkeysSuppressed
   /\ QuiescentMain) => attempted = mainConfig.hotkeys

\* an update-config call has been sent or is being handled
UpdatesInFlight == \E f \in 1..Len(flows) : flows[f].pc \in {"ipc", "saving"}

\* C36 (as claimed): persisted config matches memory: when the last of the
\* update-config calls in flight returns, every write having succeeded, the
\* content of the config file equals the config in memory, for every
\* interleaving of overlapping calls.
C36_PersistedMatches ==
  [][\A f \in 1..Len(flows) :
       (mainReturn(f, TRUE, AllRegister) /\ ~UpdatesInFlight') =>
          disk' = File(mainConfig')]_vars

\* C37: hotkey conflict: setHotkey(i, acc) when the normalized accelerator is
\* mapped to a different button changes nothing (config in the renderer and
\* in the main process unchanged, no update-config sent) and sets the status
\* to 'Hotkey already in use'; otherwise, also when the accelerator is button
\* i's own, an update-config is sent whose hotkeys map the accelerator to i.
C37_HotkeyConflict ==
  [][\A acc \in TypedAccelerators :
       hotkeySave(acc) =>
         LET n == normalizeAccelerator(acc)
         IN IF config.hotkeys[n] \notin {0, hotkeyIndex}
            THEN /\ config' = config
                 /\ mainConfig' = mainConfig
                 /\ flows' = flows
                 /\ status' = "Hotkey already in use"
            ELSE /\ Len(flows') = Len(flows) + 1
                 /\ flows'[Len(flows')].pc = "ipc"
                 /\ flows'[Len(flows')].msg.hotkeys[n] = hotkeyIndex
                 /\ status' = status]_vars

\* a save was refused for a conflict, and a later save of a button's own
\* accelerator has been sent to the main process
C37_Witness ==
  /\ status = "Hotkey already in use"
  /\ \E f \in 1..Len(flows), a \in Accelerators :
        /\ flows[f].op = "hotkey" /\ flows[f].pc = "ipc"
        /\ config.hotkeys[a] = flows[f].idx
        /\ flows[f].msg.hotkeys[a] = flows[f].idx

\* C38: starting from a hotkey map with at most one accelerator per button,
\* after any sequence of setHotkey and clearButton operations every button
\* index has at most one accelerator mapped to it, in the renderer's config,
\* in the main process's and in the file; and when clearButton(i) is done no
\* accelerator maps to i and button i is the empty button (label 'Empty',
\* path null, gain 1.0).
C38_OneAcceleratorPerButton ==
  /\ [](/\ OnePerButton(config.hotkeys)
        /\ OnePerButton(mainConfig.hotkeys)
        /\ disk.kind = "json" => OnePerButton(disk.val.hotkeys))
  /\ [][\A f \in 1..Len(flows) :
          clearReplied(f) =>
            /\ \A a \in Accelerators : config'.hotkeys[a] # flows[f].idx
            /\ config'.buttons[flows[f].idx] =
                  [label |-> EmptyLabel, path |-> NoPath, gain |-> DefaultGain]]_vars

\* the titled first button has been cleared and no accelerator maps to it,
\* the second button keeps an accelerator, and the file holds this config
C38_Witness ==
  /\ status = "Button cleared"
  /\ config.buttons[1].label = EmptyLabel
  /\ \E a \in Accelerators : config.hotkeys[a] = 2
  /\ \A a \in Accelerators : config.hotkeys[a] # 1
  /\ disk = File(config)

====
